---- MODULE Spec2Model ----
(***************************************************************************)
(* A model of BOWEN's memory / context core:                               *)
(*   - MemoryRecord and MemorySystem        (bowen_core.py)                *)
(*   - Deadline, Goal and ProactiveAssistant (proactive_assistant.py)      *)
(*   - DynamicMemory's load and save        (bowen_core.py)                *)
(*                                                                         *)
(* The content of a file is None when the file does not exist and the     *)
(* text otherwise; a text is the list of the JSON documents it holds, one *)
(* when json.load accepts it and none when the write was cut short.       *)
(*                                                                         *)
(* Conventions                                                             *)
(*   - datetimes are whole hours since 2025-01-01T00:00; a timedelta is a  *)
(*     difference of hours and timedelta.days is its floor in days.        *)
(*   - floats in [0,1] are kept in hundredths where the source uses two    *)
(*     decimals (priority, progress) and in tenths otherwise (importance,  *)
(*     confidence, estimated_hours).                                       *)
(*   - a str is the sequence of its symbols: the words of a memory         *)
(*     content, the characters of a deadline name or key.                  *)
(*   - an Optional value is <<>> for None and <<v>> for a value v.         *)
(*   - MemoryRecord.personality and MemoryRecord.context are opaque        *)
(*     payload that no operation reads; they are left out.                 *)
(***************************************************************************)
EXTENDS Integers, Sequences, FiniteSets, TLC

VARIABLES
    working_memory,     \* MemorySystem.working_memory   : list of MemoryRecord
    episodic_memory,    \* MemorySystem.episodic_memory  : list of MemoryRecord
    semantic_memory,    \* MemorySystem.semantic_memory  : list of MemoryRecord
    created,            \* number of MemoryRecord objects constructed so far
    deadlines,          \* ProactiveAssistant.deadlines  : dict, as list of <<key, Deadline>>
    goals,              \* ProactiveAssistant.goals      : dict, as list of <<key, Goal>>
    deadlines_file,     \* content of deadlines.json     : Optional dict
    goals_file,         \* content of goals.json         : Optional dict
    memory,             \* DynamicMemory.memory          : Optional dict (None: no object)
    memory_file,        \* content of memory.json        : Optional dict
    now,                \* the reading of datetime.now()
    call,               \* the last call made, with its arguments
    ret,                \* what the last call returned
    raised,             \* the exception the last call raised : Optional name
    ncalls              \* number of mutating calls made so far

vars == <<working_memory, episodic_memory, semantic_memory, created,
          deadlines, goals, deadlines_file, goals_file, memory, memory_file,
          now, call, ret, raised, ncalls>>

memvars == <<working_memory, episodic_memory, semantic_memory, created>>
dlvars  == <<deadlines, goals, deadlines_file, goals_file>>
dynvars == <<memory, memory_file>>

(***************************************************************************)
(* Bounds of the model                                                     *)
(***************************************************************************)
MaxTierCalls == 12     \* mutating calls in a run of SpecTier or SpecWork
MaxSemCalls  == 2      \* mutating calls in a run of SpecSem
MaxDlCalls   == 2      \* mutating calls in a run of SpecDl
MaxAllCalls  == 2      \* mutating calls in a run of SpecAll
MaxBootCalls == 3      \* calls and constructions in a run of SpecBoot
MaxMemCalls  == 2      \* mutating calls of SpecMem after the working tier is full
MaxCtxCalls  == 2      \* mutating calls in a run of SpecCtx
MaxSharedCalls == 3    \* calls in a run of SpecShared

(***************************************************************************)
(* Python helpers                                                          *)
(***************************************************************************)
None == <<>>
Some(v) == <<v>>

\* the elements of a list
Range(s) == {s[i] : i \in 1..Len(s)}

Min(a, b) == IF a < b THEN a ELSE b
Max(a, b) == IF a > b THEN a ELSE b

HoursPerDay == 24

\* timedelta.days : floor of the difference in days (negative when in the past)
Days(delta) == delta \div HoursPerDay

\* the test "prefix in s"
Contains(s, prefix) ==
    \E k \in 0..(Len(s) - Len(prefix)) :
        \A i \in 1..Len(prefix) : s[k + i] = prefix[i]

\* str.startswith
StartsWith(s, prefix) ==
    /\ Len(prefix) <= Len(s)
    /\ \A i \in 1..Len(prefix) : s[i] = prefix[i]

\* tuple comparison of sort keys, a < b
RECURSIVE KeyLess(_, _)
KeyLess(a, b) ==
    IF Len(a) = 0 \/ Len(b) = 0 THEN Len(a) < Len(b)
    ELSE IF Head(a) # Head(b) THEN Head(a) < Head(b)
    ELSE KeyLess(Tail(a), Tail(b))

\* place x in an already sorted list: before the first element that must
\* come after it, so that equal keys keep their original order
RECURSIVE SortInsert(_, _, _)
SortInsert(sorted, x, reverse) ==
    IF sorted = <<>> THEN <<x>>
    ELSE IF (IF reverse THEN KeyLess(Head(sorted).key, x.key)
                        ELSE KeyLess(x.key, Head(sorted).key))
         THEN <<x>> \o sorted
         ELSE <<Head(sorted)>> \o SortInsert(Tail(sorted), x, reverse)

RECURSIVE SortKeyed(_, _)
SortKeyed(items, reverse) ==
    IF items = <<>> THEN <<>>
    ELSE SortInsert(SortKeyed(SubSeq(items, 1, Len(items) - 1), reverse),
                    items[Len(items)], reverse)

\* list.sort(key=..., reverse=...) / sorted(...): a stable sort.
\* keyed is the list of [key |-> key(x), item |-> x]
StableSort(keyed, reverse) ==
    LET s == SortKeyed(keyed, reverse) IN [i \in 1..Len(s) |-> s[i].item]

(***************************************************************************)
(* MemoryRecord                                                            *)
(***************************************************************************)
category_thresholds(category) ==
    CASE category = "identity" -> 365
      [] category = "values"   -> 180
      [] category = "goals"    -> 30
      [] category = "status"   -> 7
      [] category = "task"     -> 1
      [] OTHER                 -> 30

post_init_keeps_passed(self) ==
    [self EXCEPT !.last_verified = IF @ = None THEN self.timestamp ELSE @[1]]

\* __post_init__: last_verified defaults to the timestamp and the
\* stale_threshold field is overwritten from the table
__post_init__(self) ==
    [self EXCEPT !.last_verified = IF @ = None THEN self.timestamp ELSE @[1],
                 !.stale_threshold = category_thresholds(self.category)]

\* the dataclass constructor with stale_threshold given by the caller,
\* followed by __post_init__; id is the identity of the object (the ordinal
\* of its construction); last_verified and confidence are left to default
MemoryRecordWith(id, content, timestamp, memory_type, importance, category, stale_threshold) ==
    __post_init__([ id              |-> id,
                    content         |-> content,
                    timestamp       |-> timestamp,
                    memory_type     |-> memory_type,
                    importance      |-> importance,
                    category        |-> category,
                    last_verified   |-> None,
                    confidence      |-> 10,
                    stale_threshold |-> stale_threshold ])

\* the default of the stale_threshold field
stale_threshold_default == 30

\* the constructor as MemorySystem calls it: stale_threshold is not passed
MemoryRecord(id, content, timestamp, memory_type, importance, category) ==
    MemoryRecordWith(id, content, timestamp, memory_type, importance, category,
                     stale_threshold_default)

is_stale_from_threshold(m, t) ==
    LET days_old == Days(t - m.last_verified)
    IN  days_old >= m.stale_threshold

is_stale_flipped(m, t) ==
    LET days_old == Days(t - m.last_verified)
    IN  days_old < m.stale_threshold

is_stale(m, t) ==
    LET days_old == Days(t - m.last_verified)
    IN  days_old > m.stale_threshold

refresh_keeps_date(m, new_content, new_confidence, t) ==
    LET c1 == IF new_content # None /\ Len(new_content[1]) > 0
              THEN new_content[1] ELSE m.content
        c2 == IF new_confidence # None /\ new_confidence[1] # 0
              THEN new_confidence[1] ELSE m.confidence
    IN  [m EXCEPT !.content = c1, !.confidence = c2]

\* MemoryRecord.refresh: new_content and new_confidence are Optional and are
\* applied only when truthy
refresh(m, new_content, new_confidence, t) ==
    LET c1 == IF new_content # None /\ Len(new_content[1]) > 0
              THEN new_content[1] ELSE m.content
        c2 == IF new_confidence # None /\ new_confidence[1] # 0
              THEN new_confidence[1] ELSE m.confidence
    IN  [m EXCEPT !.content = c1, !.confidence = c2, !.last_verified = t]

(***************************************************************************)
(* MemorySystem                                                            *)
(***************************************************************************)
max_working_memory == 10

\* the facts of _load_initial_context, each by its first two words
identity_facts ==
    << <<"User", "is">>, <<"Honors", "grandfather">>,
       <<"Nigerian-American", "cultural">>, <<"ShipRite", "CEO">>,
       <<"Central", "Michigan">>, <<"Moves", "to">> >>

value_facts ==
    << <<"Faith", "over">>, <<"Family", "legacy">>, <<"Transformation", "of">>,
       <<"Building", "economic">>, <<"Every", "business">>,
       <<"Non-alcoholic", "beverages">> >>

goal_facts ==
    << <<"Launch", "Remi">>, <<"Achieve", "$6,250/month">>,
       <<"Graduate", "CMU">>, <<"Complete", "DePaul">>,
       <<"Manage", "8-person">>, <<"Launch", "Fraud">>,
       <<"Build", "ShipRite">>, <<"Launch", "Francis">>,
       <<"Become", "Governor">> >>

status_facts ==
    << <<"Currently", "CMU">>, <<"Managing", "ShipRite">>,
       <<"Remi", "Guardian">>, <<"FlickChoice", "has">>,
       <<"BOWEN", "Framework">>, <<"Team", "salaries">> >>

\* add_to_semantic_memory as a function of the list and the object counter
add_to_semantic_memory(sem, n, content, importance, category, t) ==
    Append(sem, MemoryRecord(n + 1, content, t, "semantic", importance, category))

\* for fact in facts: self.add_to_semantic_memory(fact, "system", {}, ...)
RECURSIVE AddFacts(_, _, _, _, _)
AddFacts(sem, facts, importance, category, t) ==
    IF facts = <<>> THEN sem
    ELSE AddFacts(add_to_semantic_memory(sem, Len(sem), Head(facts),
                                         importance, category, t),
                  Tail(facts), importance, category, t)

\* _load_initial_context on the empty lists of __init__
_load_initial_context(t) ==
    LET s1 == AddFacts(<<>>, identity_facts, 10, "identity", t)
        s2 == AddFacts(s1, value_facts, 9, "values", t)
        s3 == AddFacts(s2, goal_facts, 8, "goals", t)
    IN  AddFacts(s3, status_facts, 7, "status", t)

\* MemorySystem.__init__
MemorySystemInit ==
    /\ working_memory = <<>>
    /\ episodic_memory = <<>>
    /\ semantic_memory = _load_initial_context(now)
    /\ created = Len(semantic_memory)

identify_stale_facts_ascending_reversed(sem, t) ==
    LET stale_memories == SelectSeq(sem, LAMBDA m : is_stale(m, t))
        ascending == StableSort([i \in 1..Len(stale_memories) |->
                                    [key |-> <<stale_memories[i].importance>>,
                                     item |-> stale_memories[i]]], FALSE)
    IN  [i \in 1..Len(ascending) |-> ascending[Len(ascending) + 1 - i]]

\* identify_stale_facts
identify_stale_facts(sem, t) ==
    LET stale_memories == SelectSeq(sem, LAMBDA m : is_stale(m, t))
    IN  StableSort([i \in 1..Len(stale_memories) |->
                      [key |-> <<stale_memories[i].importance>>,
                       item |-> stale_memories[i]]], TRUE)

refresh_fact_without_break(sem, memory_id, new_content, verified, t) ==
    [i \in 1..Len(sem) |->
        IF StartsWith(sem[i].content, memory_id)
        THEN refresh(sem[i], new_content, Some(IF verified THEN 10 ELSE 5), t)
        ELSE sem[i]]

\* refresh_fact: the first record whose content starts with memory_id is
\* refreshed, then the loop breaks
RECURSIVE refresh_fact(_, _, _, _, _)
refresh_fact(sem, memory_id, new_content, verified, t) ==
    IF sem = <<>> THEN <<>>
    ELSE IF StartsWith(Head(sem).content, memory_id)
         THEN <<refresh(Head(sem), new_content,
                        Some(IF verified THEN 10 ELSE 5), t)>> \o Tail(sem)
         ELSE <<Head(sem)>> \o refresh_fact(Tail(sem), memory_id, new_content,
                                            verified, t)

categories_swapped == <<"identity", "goals", "values", "status", "task">>

categories == <<"identity", "values", "goals", "status", "task">>

top3_all(s) == s

\* relevant_memories[:3]
top3(s) == SubSeq(s, 1, Min(3, Len(s)))

relevant_top_any_confidence(sem, category, t) ==
    LET relevant_memories ==
            SelectSeq(sem, LAMBDA m : m.category = category /\ ~is_stale(m, t))
        sorted == StableSort([i \in 1..Len(relevant_memories) |->
                      [key |-> <<relevant_memories[i].importance,
                                 relevant_memories[i].timestamp>>,
                       item |-> relevant_memories[i]]], TRUE)
    IN  top3(sorted)

relevant_top_by_importance(sem, category, t) ==
    LET relevant_memories ==
            SelectSeq(sem, LAMBDA m : /\ m.category = category
                                      /\ ~is_stale(m, t)
                                      /\ m.confidence > 7)
        sorted == StableSort([i \in 1..Len(relevant_memories) |->
                      [key |-> <<relevant_memories[i].importance>>,
                       item |-> relevant_memories[i]]], TRUE)
    IN  top3(sorted)

\* the records get_context_by_priority emits for one category
relevant_top(sem, category, t) ==
    LET relevant_memories ==
            SelectSeq(sem, LAMBDA m : /\ m.category = category
                                      /\ ~is_stale(m, t)
                                      /\ m.confidence > 7)
        sorted == StableSort([i \in 1..Len(relevant_memories) |->
                      [key |-> <<relevant_memories[i].importance,
                                 relevant_memories[i].timestamp>>,
                       item |-> relevant_memories[i]]], TRUE)
    IN  top3(sorted)

\* the records behind context_parts, in the order of emission
RECURSIVE context_records(_, _, _)
context_records(sem, cats, t) ==
    IF cats = <<>> THEN <<>>
    ELSE relevant_top(sem, Head(cats), t) \o context_records(sem, Tail(cats), t)

\* get_context_by_priority: "\n".join(context_parts), as the list of its lines
get_context_by_priority(sem, t) ==
    LET parts == context_records(sem, categories, t)
    IN  [i \in 1..Len(parts) |-> parts[i].content]

(***************************************************************************)
(* Python dict: a list of <<key, value>> entries in insertion order        *)
(***************************************************************************)
DictKeys(d) == {d[i][1] : i \in 1..Len(d)}

DictHas(d, k) == \E i \in 1..Len(d) : d[i][1] = k

DictGet(d, k) == d[CHOOSE i \in 1..Len(d) : d[i][1] = k][2]

\* d[k] = v : an existing key keeps its position
DictSet(d, k, v) ==
    IF DictHas(d, k)
    THEN [i \in 1..Len(d) |-> IF d[i][1] = k THEN <<k, v>> ELSE d[i]]
    ELSE Append(d, <<k, v>>)

\* d.values()
DictValues(d) == [i \in 1..Len(d) |-> d[i][2]]

(***************************************************************************)
(* str.lower() and str.replace(' ', '_') on a list of characters           *)
(***************************************************************************)
lower_char(c) ==
    CASE c = "A" -> "a"
      [] c = "B" -> "b"
      [] c = "C" -> "c"
      [] c = "D" -> "d"
      [] c = "E" -> "e"
      [] c = "F" -> "f"
      [] c = "G" -> "g"
      [] c = "H" -> "h"
      [] c = "I" -> "i"
      [] c = "J" -> "j"
      [] c = "K" -> "k"
      [] c = "L" -> "l"
      [] c = "M" -> "m"
      [] c = "N" -> "n"
      [] c = "O" -> "o"
      [] c = "P" -> "p"
      [] c = "Q" -> "q"
      [] c = "R" -> "r"
      [] c = "S" -> "s"
      [] c = "T" -> "t"
      [] c = "U" -> "u"
      [] c = "V" -> "v"
      [] c = "W" -> "w"
      [] c = "X" -> "x"
      [] c = "Y" -> "y"
      [] c = "Z" -> "z"
      [] OTHER -> c

lower(s) == [i \in 1..Len(s) |-> lower_char(s[i])]

replace_space(s) == [i \in 1..Len(s) |-> IF s[i] = " " THEN "_" ELSE s[i]]

(***************************************************************************)
(* Deadline, Goal and their JSON form                                      *)
(***************************************************************************)
Deadline(name, due_date, category, priority, description, status, estimated_hours, progress, reminders) ==
    [ name            |-> name,
      due_date        |-> due_date,
      category        |-> category,
      priority        |-> priority,
      description     |-> description,
      status          |-> status,
      estimated_hours |-> estimated_hours,
      progress        |-> progress,
      reminders       |-> reminders ]

Goal(name, category, target_date, description, progress, milestones, daily_requirement, streak, last_completed) ==
    [ name              |-> name,
      category          |-> category,
      target_date       |-> target_date,
      description       |-> description,
      progress          |-> progress,
      milestones        |-> milestones,
      daily_requirement |-> daily_requirement,
      streak            |-> streak,
      last_completed    |-> last_completed ]

\* datetime.isoformat / datetime.fromisoformat: the text form of a datetime
isoformat(d) == <<"iso", d>>
fromisoformat(x) == x[2]

\* json.dump: the text of a file that holds one JSON document
json_dump(obj) == <<obj>>

\* the text of a file that was opened for writing and never written: what
\* a crash between open(file, 'w') and json.dump leaves behind
TRUNCATED == <<>>

\* whether json.load accepts the text; it raises JSONDecodeError otherwise
parses(text) == Len(text) = 1

\* json.load on a text it accepts
json_load(text) == text[1]

\* the body of save_deadlines' loop
deadline_to_json(d) ==
    [d EXCEPT !.due_date = isoformat(d.due_date),
              !.reminders = [i \in 1..Len(d.reminders) |-> isoformat(d.reminders[i])]]

\* the body of load_deadlines' loop
deadline_from_json(j) ==
    Deadline(j.name, fromisoformat(j.due_date), j.category, j.priority,
             j.description, j.status, j.estimated_hours, j.progress,
             [i \in 1..Len(j.reminders) |-> fromisoformat(j.reminders[i])])

goal_to_json(g) ==
    [g EXCEPT !.target_date = isoformat(g.target_date),
              !.last_completed = IF g.last_completed # None
                                 THEN Some(isoformat(g.last_completed[1]))
                                 ELSE None]

goal_from_json(j) ==
    Goal(j.name, j.category, fromisoformat(j.target_date), j.description,
         j.progress, j.milestones, j.daily_requirement, j.streak,
         IF j.last_completed # None
         THEN Some(fromisoformat(j.last_completed[1])) ELSE None)

\* save_deadlines: the content written to deadlines.json
save_deadlines(d) ==
    Some(json_dump([i \in 1..Len(d) |-> <<d[i][1], deadline_to_json(d[i][2])>>]))

\* load_deadlines: {} when the file does not exist, and {} from the except
\* branch when json.load raises
load_deadlines(file) ==
    IF file = None THEN <<>>
    ELSE IF ~parses(file[1]) THEN <<>>
    ELSE LET data == json_load(file[1])
         IN  [i \in 1..Len(data) |-> <<data[i][1], deadline_from_json(data[i][2])>>]

save_goals(g) ==
    Some(json_dump([i \in 1..Len(g) |-> <<g[i][1], goal_to_json(g[i][2])>>]))

load_goals(file) ==
    IF file = None THEN <<>>
    ELSE IF ~parses(file[1]) THEN <<>>
    ELSE LET data == json_load(file[1])
         IN  [i \in 1..Len(data) |-> <<data[i][1], goal_from_json(data[i][2])>>]

(***************************************************************************)
(* ProactiveAssistant                                                      *)
(***************************************************************************)
\* the deadlines of initialize_your_life (hours since 2025-01-01T00:00)
current_deadlines ==
    << <<<<"d", "a", "t", "a", "b", "a", "s", "e", "_", "e", "x", "a", "m">>,
         Deadline(<<"D", "a", "t", "a", "b", "a", "s", "e", " ", "S", "y", "s", "t", "e", "m", "s", " ", "E", "x", "a", "m">>, 14, "academic", 95,
                  "Database Systems final exam", "pending", 20, 80, <<>>)>>,
       <<<<"d", "e", "p", "a", "u", "l", "_", "a", "p", "p", "l", "i", "c", "a", "t", "i", "o", "n">>,
         Deadline(<<"D", "e", "P", "a", "u", "l", " ", "U", "n", "i", "v", "e", "r", "s", "i", "t", "y", " ", "A", "p", "p", "l", "i", "c", "a", "t", "i", "o", "n">>, 15 * 24, "academic", 90,
                  "Graduate school application", "in_progress", 200, 30, <<>>)>>,
       <<<<"r", "e", "m", "i", "_", "w", "h", "i", "t", "e", "b", "o", "a", "r", "d">>,
         Deadline(<<"R", "e", "m", "i", " ", "G", "u", "a", "r", "d", "i", "a", "n", " ", "W", "h", "i", "t", "e", "b", "o", "a", "r", "d", " ", "F", "e", "a", "t", "u", "r", "e">>, 31 * 24, "coding", 95,
                  "Critical feature for Remi Guardian launch", "in_progress",
                  400, 60, <<>>)>>,
       <<<<"a", "b", "a", "y", "o", "m", "i", "_", "s", "a", "l", "a", "r", "y">>,
         Deadline(<<"A", "b", "a", "y", "o", "m", "i", " ", "S", "a", "l", "a", "r", "y", " ", "P", "a", "y", "m", "e", "n", "t">>, 2 * 24, "business", 100,
                  "Team member salary payment", "pending", 5, 0, <<>>)>> >>

\* the goals of initialize_your_life
current_goals ==
    << <<"75_hard",
         Goal("75 Hard Challenge", "personal", 73 * 24,
              "Complete 75 Hard mental toughness challenge", 32,
              <<"First milestone", "Halfway point", "Challenge complete">>,
              Some("Workout, read 10 pages, drink water, take photo"),
              24, Some(0 - 2 * 24))>>,
       <<"graduation",
         Goal("University Graduation", "academic", 134 * 24,
              "Complete all coursework and graduate", 85,
              <<"Pass all current classes", "Complete final semester">>,
              None, 0, None)>>,
       <<"shiprite_growth",
         Goal("ShipRite Business Growth", "business", 364 * 24,
              "Scale ShipRite to sustainable profitability", 40,
              <<"Launch Remi Guardian", "User acquisition milestone",
                "Revenue targets">>,
              Some("Strategic work on core products"), 0, None)>> >>

\* initialize_your_life on the dicts __init__ has loaded: whichever dict is
\* empty is filled with the built-in entries and saved
initialize_your_life(d, g, dfile, gfile) ==
    [ deadlines      |-> IF d = <<>> THEN current_deadlines ELSE d,
      deadlines_file |-> IF d = <<>> THEN save_deadlines(current_deadlines) ELSE dfile,
      goals          |-> IF g = <<>> THEN current_goals ELSE g,
      goals_file     |-> IF g = <<>> THEN save_goals(current_goals) ELSE gfile ]

\* __init__: load both files, then initialize_your_life
ProactiveAssistantInit(dfile, gfile) ==
    LET self == initialize_your_life(load_deadlines(dfile), load_goals(gfile), dfile, gfile)
    IN  /\ deadlines = self.deadlines
        /\ deadlines_file = self.deadlines_file
        /\ goals = self.goals
        /\ goals_file = self.goals_file

get_urgent_deadlines_low_first(d, days_threshold, t) ==
    LET vals == DictValues(d)
        urgent == SelectSeq(vals, LAMBDA x :
                      /\ x.status \in {"pending", "in_progress"}
                      /\ LET days_left == Days(x.due_date - t)
                         IN  0 <= days_left /\ days_left <= days_threshold)
    IN  StableSort([i \in 1..Len(urgent) |->
                      [key |-> <<Days(urgent[i].due_date - t), urgent[i].priority>>,
                       item |-> urgent[i]]], FALSE)

get_urgent_deadlines_from_tomorrow(d, days_threshold, t) ==
    LET vals == DictValues(d)
        urgent == SelectSeq(vals, LAMBDA x :
                      /\ x.status \in {"pending", "in_progress"}
                      /\ LET days_left == Days(x.due_date - t)
                         IN  0 < days_left /\ days_left <= days_threshold)
    IN  StableSort([i \in 1..Len(urgent) |->
                      [key |-> <<Days(urgent[i].due_date - t), 0 - urgent[i].priority>>,
                       item |-> urgent[i]]], FALSE)

\* the deadlines get_urgent_deadlines returns
get_urgent_deadlines(d, days_threshold, t) ==
    LET vals == DictValues(d)
        urgent == SelectSeq(vals, LAMBDA x :
                      /\ x.status \in {"pending", "in_progress"}
                      /\ LET days_left == Days(x.due_date - t)
                         IN  0 <= days_left /\ days_left <= days_threshold)
    IN  StableSort([i \in 1..Len(urgent) |->
                      [key |-> <<Days(urgent[i].due_date - t), 0 - urgent[i].priority>>,
                       item |-> urgent[i]]], FALSE)

update_deadline_starts_work(d, deadline_key, progress, status) ==
    IF DictHas(d, deadline_key)
    THEN LET old == DictGet(d, deadline_key)
             d1 == IF progress # None THEN [old EXCEPT !.progress = progress[1]] ELSE old
             d2 == IF status # None THEN [d1 EXCEPT !.status = status[1]]
                   ELSE IF progress # None THEN [d1 EXCEPT !.status = "in_progress"]
                   ELSE d1
         IN  DictSet(d, deadline_key, d2)
    ELSE d

update_deadline_drops_completed(d, deadline_key, progress, status) ==
    IF DictHas(d, deadline_key)
    THEN IF status = Some("completed")
         THEN SelectSeq(d, LAMBDA e : e[1] # deadline_key)
         ELSE LET old == DictGet(d, deadline_key)
                  d1 == IF progress # None THEN [old EXCEPT !.progress = progress[1]] ELSE old
                  d2 == IF status # None THEN [d1 EXCEPT !.status = status[1]] ELSE d1
              IN  DictSet(d, deadline_key, d2)
    ELSE d

update_deadline_if_truthy(d, deadline_key, progress, status) ==
    IF DictHas(d, deadline_key)
    THEN LET old == DictGet(d, deadline_key)
             d1 == IF progress # None /\ progress[1] # 0
                   THEN [old EXCEPT !.progress = progress[1]] ELSE old
             d2 == IF status # None THEN [d1 EXCEPT !.status = status[1]] ELSE d1
         IN  DictSet(d, deadline_key, d2)
    ELSE d

\* update_deadline on the dict; progress and status are Optional
update_deadline(d, deadline_key, progress, status) ==
    IF DictHas(d, deadline_key)
    THEN LET old == DictGet(d, deadline_key)
             d1 == IF progress # None THEN [old EXCEPT !.progress = progress[1]] ELSE old
             d2 == IF status # None THEN [d1 EXCEPT !.status = status[1]] ELSE d1
         IN  DictSet(d, deadline_key, d2)
    ELSE d

\* the key add_deadline derives from the name
deadline_key_of(name) == replace_space(lower(name))

add_deadline_keeps_progress(d, name, due_date, category, priority, description, estimated_hours) ==
    LET k == deadline_key_of(name)
    IN  DictSet(d, k,
                Deadline(name, due_date, category, priority, description,
                         IF DictHas(d, k) THEN DictGet(d, k).status ELSE "pending",
                         estimated_hours,
                         IF DictHas(d, k) THEN DictGet(d, k).progress ELSE 0, <<>>))

add_deadline(d, name, due_date, category, priority, description, estimated_hours) ==
    DictSet(d, deadline_key_of(name),
            Deadline(name, due_date, category, priority, description,
                     "pending", estimated_hours, 0, <<>>))

complete_daily_goal_restarts(g, goal_key, t) ==
    IF DictHas(g, goal_key)
    THEN LET old == DictGet(g, goal_key)
             broken == old.last_completed # None /\ Days(t - old.last_completed[1]) > 1
         IN  DictSet(g, goal_key, [old EXCEPT !.last_completed = Some(t),
                                              !.streak = IF broken THEN 1 ELSE old.streak + 1])
    ELSE g

\* complete_daily_goal on the dict
complete_daily_goal(g, goal_key, t) ==
    IF DictHas(g, goal_key)
    THEN LET old == DictGet(g, goal_key)
         IN  DictSet(g, goal_key, [old EXCEPT !.last_completed = Some(t),
                                              !.streak = old.streak + 1])
    ELSE g

\* the keys generate_recommendations looks up
KEY_DATABASE_EXAM == <<"d", "a", "t", "a", "b", "a", "s", "e", "_", "e", "x", "a", "m">>
KEY_REMI_WHITEBOARD == <<"r", "e", "m", "i", "_", "w", "h", "i", "t", "e", "b", "o", "a", "r", "d">>
KEY_ABAYOMI_SALARY == <<"a", "b", "a", "y", "o", "m", "i", "_", "s", "a", "l", "a", "r", "y">>

\* datetime.date(): the day an instant falls on
date(d) == d \div HoursPerDay

\* the truth value of an Optional[str]: None and "" are false
truthy(s) == s # None /\ s[1] # ""

\* list[:n]
Take(s, n) == SubSeq(s, 1, Min(n, Len(s)))

\* get_todays_priorities: the deadlines due today, then the goals with a
\* daily requirement, sorted by priority (highest first), the first five
get_todays_priorities(d, g, t) ==
    LET today == date(t)
        due == SelectSeq(DictValues(d), LAMBDA x : date(x.due_date) = today)
        daily == SelectSeq(DictValues(g), LAMBDA x : truthy(x.daily_requirement))
        priorities ==
            [i \in 1..Len(due) |->
                [name |-> due[i].name, category |-> due[i].category,
                 priority |-> due[i].priority,
                 time |-> Some(due[i].due_date % HoursPerDay),
                 status |-> <<due[i].progress, "% complete">>]]
            \o [i \in 1..Len(daily) |->
                [name |-> daily[i].name, category |-> daily[i].category,
                 priority |-> 80, time |-> None,
                 status |-> <<daily[i].daily_requirement[1]>>]]
    IN  Take(StableSort([i \in 1..Len(priorities) |->
                            [key |-> <<priorities[i].priority>>,
                             item |-> priorities[i]]], TRUE), 5)

\* generate_recommendations: each recommendation is its text, followed by
\* the number an f-string puts into it
generate_recommendations(d, g, t) ==
    LET academic ==
            IF DictHas(d, KEY_DATABASE_EXAM)
               /\ date(DictGet(d, KEY_DATABASE_EXAM).due_date) = date(t)
            THEN << <<"Database exam today">> >> ELSE <<>>
        coding ==
            IF DictHas(d, KEY_REMI_WHITEBOARD)
               /\ DictGet(d, KEY_REMI_WHITEBOARD).progress < 70
            THEN << <<"Remi whiteboard feature 60% done, days left",
                      Days(DictGet(d, KEY_REMI_WHITEBOARD).due_date - t)>> >>
            ELSE <<>>
        business ==
            IF DictHas(d, KEY_ABAYOMI_SALARY)
               /\ DictGet(d, KEY_ABAYOMI_SALARY).status = "pending"
            THEN << <<"Abayomi's salary due in 2 days">> >> ELSE <<>>
        personal ==
            IF DictHas(g, "75_hard")
               /\ LET goal_75 == DictGet(g, "75_hard")
                  IN  \/ goal_75.last_completed = None
                      \/ date(goal_75.last_completed[1]) < date(t)
            THEN << <<"You haven't worked out yet today (75 Hard Day 24)">> >>
            ELSE <<>>
        recommendations ==
            academic \o coding \o business \o personal
            \o << <<"Block 2 hours for focused work">>,
                  <<"Review and update project progress">> >>
    IN  Take(recommendations, 5)

Alert(message, priority, category, action_required, deadline, created_at) ==
    [ message         |-> message,
      priority        |-> priority,
      category        |-> category,
      action_required |-> action_required,
      deadline        |-> deadline,
      created         |-> created_at ]

get_critical_alerts_after_one_day(d, g, t) ==
    LET overdue == SelectSeq(DictValues(d),
                             LAMBDA x : x.due_date < t /\ x.status # "completed")
        at_risk == SelectSeq(DictValues(g),
                             LAMBDA x : /\ truthy(x.daily_requirement)
                                        /\ x.last_completed # None
                                        /\ Days(t - x.last_completed[1]) >= 1)
    IN  [i \in 1..Len(overdue) |->
            Alert(<<overdue[i].name, " is overdue!">>, "critical",
                  overdue[i].category, TRUE, Some(overdue[i].due_date), t)]
        \o [i \in 1..Len(at_risk) |->
            Alert(<<at_risk[i].name, " streak at risk - complete today's requirement">>,
                  "high", at_risk[i].category, TRUE, None, t)]

\* get_critical_alerts: an alert per deadline past due and not completed,
\* then an alert per goal with a daily requirement last completed more than
\* one whole day (timedelta.days > 1) ago
get_critical_alerts(d, g, t) ==
    LET overdue == SelectSeq(DictValues(d),
                             LAMBDA x : x.due_date < t /\ x.status # "completed")
        at_risk == SelectSeq(DictValues(g),
                             LAMBDA x : /\ truthy(x.daily_requirement)
                                        /\ x.last_completed # None
                                        /\ Days(t - x.last_completed[1]) > 1)
    IN  [i \in 1..Len(overdue) |->
            Alert(<<overdue[i].name, " is overdue!">>, "critical",
                  overdue[i].category, TRUE, Some(overdue[i].due_date), t)]
        \o [i \in 1..Len(at_risk) |->
            Alert(<<at_risk[i].name, " streak at risk - complete today's requirement">>,
                  "high", at_risk[i].category, TRUE, None, t)]

(***************************************************************************)
(* DynamicMemory                                                           *)
(***************************************************************************)
\* the empty memory structure load returns when memory.json does not exist
empty_memory(t) ==
    [ facts             |-> <<>>,
      events            |-> <<>>,
      patterns          |-> <<>>,
      temporal_tracking |-> <<>>,
      last_updated      |-> isoformat(t) ]

\* load: the dict it returns, or the exception that leaves it; the
\* json.load of load is not inside any try
load(file, t) ==
    IF file # None
    THEN IF parses(file[1])
         THEN [ret |-> Some(json_load(file[1])), raised |-> None]
         ELSE [ret |-> None, raised |-> Some("JSONDecodeError")]
    ELSE [ret |-> Some(empty_memory(t)), raised |-> None]

\* save: the dict after last_updated is stamped (the key is created when
\* the loaded document did not have it)
save(m, t) ==
    IF "last_updated" \in DOMAIN m
    THEN [m EXCEPT !.last_updated = isoformat(t)]
    ELSE [k \in DOMAIN m \cup {"last_updated"} |->
             IF k = "last_updated" THEN isoformat(t) ELSE m[k]]

\* the number that (\d+) reads in a word of the input; None when the word
\* holds no digit
number_in(word) ==
    CASE word = "70%" -> Some(70)
      [] word = "25"  -> Some(25)
      [] word = "75"  -> Some(75)
      [] OTHER        -> None

\* `word in lower_input`; the inputs of the model are lowercase and no word
\* of theirs holds one of the words looked for as a part
has_word(user_input, word) == \E i \in 1..Len(user_input) : user_input[i] = word

\* `"%" in lower_input`
has_percent(user_input) == \E i \in 1..Len(user_input) : user_input[i] = "70%"

\* any(char.isdigit() for char in lower_input)
has_digit(user_input) == \E i \in 1..Len(user_input) : number_in(user_input[i]) # None

\* _extract_progress_update
_extract_progress_update(m, text, t) ==
    IF has_word(text, "remi") /\ has_percent(text)
    THEN LET i == CHOOSE j \in 1..Len(text) : text[j] = "70%"
         IN  [m EXCEPT !.facts = DictSet(@, <<"remi_progress">>,
                                         [percent |-> number_in(text[i])[1],
                                          updated |-> isoformat(t)])]
    ELSE m

\* whether _extract_completion reaches self.memory["events"]
completes(text) == has_word(text, "exam") /\ has_word(text, "done")

\* _extract_completion, on a dict that has the key "events"
_extract_completion(m, text, t) ==
    IF completes(text)
    THEN [m EXCEPT !.events = Append(@, [type |-> "task_completed",
                                         task |-> "Database exam",
                                         completed_at |-> isoformat(t)])]
    ELSE m

\* where re.search(r'day\s*(\d+)') matches: the first "day" that a number
\* follows; 0 when there is none
day_match(text) ==
    LET at == {j \in 1..(Len(text) - 1) : text[j] = "day" /\ number_in(text[j + 1]) # None}
    IN  IF at = {} THEN 0 ELSE CHOOSE j \in at : \A k \in at : j <= k

\* _extract_day_counter
_extract_day_counter(m, text, t) ==
    IF /\ \E i \in 1..(Len(text) - 1) : text[i] = "75" /\ text[i + 1] = "hard"
       /\ day_match(text) # 0
    THEN [m EXCEPT !.facts = DictSet(@, <<"75_hard_day">>,
                                     [current_day |-> number_in(text[day_match(text) + 1])[1],
                                      updated |-> isoformat(t)])]
    ELSE m

\* learn_from_conversation: the extractors that the words of the input
\* switch on, in the order of the source, then save; _extract_deadline and
\* _extract_team_update do nothing. A dict loaded without the key "events"
\* raises KeyError in _extract_completion, after the progress update and
\* before the save.
learn_from_conversation(m, user_input, t) ==
    LET m1 == IF has_word(user_input, "is")
                 /\ (has_percent(user_input) \/ has_word(user_input, "percent")
                     \/ has_word(user_input, "done"))
              THEN _extract_progress_update(m, user_input, t) ELSE m
        completion == \E w \in {"finished", "done", "completed"} : has_word(user_input, w)
        m2 == IF completion THEN _extract_completion(m1, user_input, t) ELSE m1
        m3 == IF has_word(user_input, "day") /\ has_digit(user_input)
              THEN _extract_day_counter(m2, user_input, t) ELSE m2
    IN  IF completion /\ completes(user_input) /\ "events" \notin DOMAIN m
        THEN [memory |-> m1, saved |-> FALSE, raised |-> Some("KeyError")]
        ELSE [memory |-> save(m3, t), saved |-> TRUE, raised |-> None]

(***************************************************************************)
(* ManualAcademic, on the same memory.json                                 *)
(***************************************************************************)
\* str.title() and str.lower() of the items the model uses
title(item) == CASE item = "essay" -> "Essay" [] item = "exam" -> "Exam" [] OTHER -> item
lower_item(item) == CASE item = "Essay" -> "essay" [] item = "Exam" -> "exam" [] OTHER -> item

\* the document add_deadline and remove_deadline read: {'facts': {}} when
\* open or json.load fails
manual_read(file) ==
    IF file # None /\ parses(file[1]) THEN json_load(file[1]) ELSE [facts |-> <<>>]

\* the key add_deadline gives the fact
fact_key(item, parsed_date) == <<"manual", item, parsed_date>>

\* add_deadline with the item and the date that the parsing of the
\* description yields: the document it writes back
manual_add_deadline(file, item, parsed_date, t) ==
    LET doc == manual_read(file)
    IN  [doc EXCEPT !.facts =
            DictSet(@, fact_key(item, parsed_date),
                    [ type |-> "deadline", item |-> title(item), course |-> "General",
                      date |-> date(parsed_date),
                      time |-> IF parsed_date % HoursPerDay # 0
                               THEN Some(parsed_date % HoursPerDay) ELSE None,
                      expires |-> date(parsed_date) * HoursPerDay + 23,
                      source |-> "manual_input", confidence |-> 10,
                      told_on |-> isoformat(t) ])]

\* the keys remove_deadline deletes
facts_to_remove(doc, item_name, day) ==
    {doc.facts[i][1] : i \in {j \in 1..Len(doc.facts) :
        /\ "type" \in DOMAIN doc.facts[j][2]
        /\ doc.facts[j][2].type = "deadline"
        /\ lower_item(doc.facts[j][2].item) = lower_item(item_name)
        /\ doc.facts[j][2].date = day}}

\* remove_deadline: the document it writes back when something matched
manual_remove_deadline(doc, item_name, day) ==
    [doc EXCEPT !.facts = SelectSeq(@, LAMBDA e : e[1] \notin facts_to_remove(doc, item_name, day))]

(***************************************************************************)
(* The state after construction                                            *)
(***************************************************************************)
NoCall == [op |-> "none", args |-> <<>>, at |-> 0]

Called(op, args) == [op |-> op, args |-> args, at |-> now]

\* MemorySystem(), ProactiveAssistant() and DynamicMemory() built at hour 0
\* on a machine with no bowen_outputs directory and no memory.json yet
Init ==
    /\ now = 0
    /\ MemorySystemInit
    /\ ProactiveAssistantInit(None, None)
    /\ memory = load(None, 0).ret
    /\ memory_file = None
    /\ call = NoCall
    /\ ret = <<>>
    /\ raised = None
    /\ ncalls = 0

(***************************************************************************)
(* The clock                                                               *)
(***************************************************************************)
\* time passes between two calls: datetime.now() reads a later instant
Tick(instants) ==
    /\ \E t \in instants : t > now /\ now' = t
    /\ UNCHANGED <<dynvars, memvars, dlvars, call, ret, raised, ncalls>>

(***************************************************************************)
(* MemorySystem operations                                                 *)
(***************************************************************************)
over_capacity_late(w) == Len(w) > max_working_memory + 1

\* the capacity test of add_to_working_memory, on the list after the append
over_capacity(w) == Len(w) > max_working_memory

evicted_index_newest(w) == Len(w)

\* which record of the over-full list add_to_working_memory pops
evicted_index(w) == 1

Pop_leaves_it(w, i) == w

\* list.pop(i)
Pop(w, i) == SubSeq(w, 1, i - 1) \o SubSeq(w, i + 1, Len(w))

AddWorking(content, category) ==
    LET record == MemoryRecord(created + 1, content, now, "working", 5, category)
        w1 == Append(working_memory, record)
    IN  /\ created' = created + 1
        /\ IF over_capacity(w1)
           THEN LET i == evicted_index(w1)
                    old_record == [w1[i] EXCEPT !.memory_type = "episodic"]
                IN  /\ working_memory' = Pop(w1, i)
                    /\ episodic_memory' = Append(episodic_memory, old_record)
           ELSE /\ working_memory' = w1
                /\ episodic_memory' = episodic_memory
        /\ call' = Called("add_to_working_memory", <<content, category>>)
        /\ ret' = <<>>
        /\ raised' = None
        /\ ncalls' = ncalls + 1
        /\ UNCHANGED <<dynvars, semantic_memory, dlvars, now>>

AddEpisodic(content, importance, category) ==
    LET record == MemoryRecord(created + 1, content, now, "episodic", importance, category)
    IN  /\ created' = created + 1
        /\ episodic_memory' = Append(episodic_memory, record)
        /\ call' = Called("add_to_episodic_memory", <<content, importance, category>>)
        /\ ret' = <<>>
        /\ raised' = None
        /\ ncalls' = ncalls + 1
        /\ UNCHANGED <<dynvars, working_memory, semantic_memory, dlvars, now>>

AddSemantic(content, importance, category) ==
    /\ semantic_memory' = add_to_semantic_memory(semantic_memory, created, content,
                                                 importance, category, now)
    /\ created' = created + 1
    /\ call' = Called("add_to_semantic_memory", <<content, importance, category>>)
    /\ ret' = <<>>
    /\ raised' = None
    /\ ncalls' = ncalls + 1
    /\ UNCHANGED <<dynvars, working_memory, episodic_memory, dlvars, now>>

RefreshFact(memory_id, new_content, verified) ==
    /\ semantic_memory' = refresh_fact(semantic_memory, memory_id, new_content,
                                       verified, now)
    /\ call' = Called("refresh_fact", <<memory_id, new_content, verified>>)
    /\ ret' = <<>>
    /\ raised' = None
    /\ ncalls' = ncalls + 1
    /\ UNCHANGED <<dynvars, working_memory, episodic_memory, created, dlvars, now>>

GetContextByPriority ==
    /\ call' = Called("get_context_by_priority", <<>>)
    /\ ret' = get_context_by_priority(semantic_memory, now)
    /\ raised' = None
    /\ UNCHANGED <<dynvars, memvars, dlvars, now, ncalls>>

IdentifyStaleFacts_sorting_the_tier ==
    /\ call' = Called("identify_stale_facts", <<>>)
    /\ ret' = identify_stale_facts(semantic_memory, now)
    /\ semantic_memory' = StableSort([i \in 1..Len(semantic_memory) |->
                                         [key |-> <<semantic_memory[i].importance>>,
                                          item |-> semantic_memory[i]]], TRUE)
    /\ raised' = None
    /\ UNCHANGED <<dynvars, working_memory, episodic_memory, created, dlvars, now, ncalls>>

IdentifyStaleFacts ==
    /\ call' = Called("identify_stale_facts", <<>>)
    /\ ret' = identify_stale_facts(semantic_memory, now)
    /\ raised' = None
    /\ UNCHANGED <<dynvars, memvars, dlvars, now, ncalls>>

(***************************************************************************)
(* ProactiveAssistant operations                                           *)
(***************************************************************************)
AddDeadline_overdue(name, due_date, category, priority) ==
    /\ deadlines' = LET d == add_deadline(deadlines, name, due_date, category, priority, "", 10)
                    IN  IF due_date < now
                        THEN update_deadline(d, deadline_key_of(name), None, Some("overdue"))
                        ELSE d
    /\ deadlines_file' = save_deadlines(deadlines')
    /\ call' = Called("add_deadline", <<name, due_date, category, priority>>)
    /\ ret' = deadline_key_of(name)
    /\ raised' = None
    /\ ncalls' = ncalls + 1
    /\ UNCHANGED <<dynvars, memvars, goals, goals_file, now>>

AddDeadline(name, due_date, category, priority) ==
    /\ deadlines' = add_deadline(deadlines, name, due_date, category, priority, "", 10)
    /\ deadlines_file' = save_deadlines(deadlines')
    /\ call' = Called("add_deadline", <<name, due_date, category, priority>>)
    /\ ret' = deadline_key_of(name)
    /\ raised' = None
    /\ ncalls' = ncalls + 1
    /\ UNCHANGED <<dynvars, memvars, goals, goals_file, now>>

\* nothing is saved when the key is not in the dict
UpdateDeadline(deadline_key, progress, status) ==
    /\ deadlines' = update_deadline(deadlines, deadline_key, progress, status)
    /\ deadlines_file' = IF DictHas(deadlines, deadline_key)
                         THEN save_deadlines(deadlines')
                         ELSE deadlines_file
    /\ call' = Called("update_deadline", <<deadline_key, progress, status>>)
    /\ ret' = <<>>
    /\ raised' = None
    /\ ncalls' = ncalls + 1
    /\ UNCHANGED <<dynvars, memvars, goals, goals_file, now>>

CompleteDailyGoal(goal_key) ==
    /\ goals' = complete_daily_goal(goals, goal_key, now)
    /\ goals_file' = IF DictHas(goals, goal_key) THEN save_goals(goals') ELSE goals_file
    /\ call' = Called("complete_daily_goal", <<goal_key>>)
    /\ ret' = <<>>
    /\ raised' = None
    /\ ncalls' = ncalls + 1
    /\ UNCHANGED <<dynvars, memvars, deadlines, deadlines_file, now>>

GetUrgentDeadlines(days_threshold) ==
    /\ call' = Called("get_urgent_deadlines", <<days_threshold>>)
    /\ ret' = get_urgent_deadlines(deadlines, days_threshold, now)
    /\ raised' = None
    /\ UNCHANGED <<dynvars, memvars, dlvars, now, ncalls>>

GetCriticalAlerts_marking ==
    /\ call' = Called("get_critical_alerts", <<>>)
    /\ ret' = get_critical_alerts(deadlines, goals, now)
    /\ raised' = None
    /\ deadlines' = [i \in 1..Len(deadlines) |->
                        IF deadlines[i][2].due_date < now
                           /\ deadlines[i][2].status # "completed"
                        THEN <<deadlines[i][1], [deadlines[i][2] EXCEPT !.status = "overdue"]>>
                        ELSE deadlines[i]]
    /\ UNCHANGED <<dynvars, memvars, goals, deadlines_file, goals_file, now, ncalls>>

GetCriticalAlerts ==
    /\ call' = Called("get_critical_alerts", <<>>)
    /\ ret' = get_critical_alerts(deadlines, goals, now)
    /\ raised' = None
    /\ UNCHANGED <<dynvars, memvars, dlvars, now, ncalls>>

GenerateRecommendations ==
    /\ call' = Called("generate_recommendations", <<>>)
    /\ ret' = generate_recommendations(deadlines, goals, now)
    /\ raised' = None
    /\ UNCHANGED <<dynvars, memvars, dlvars, now, ncalls>>

GetTodaysPriorities ==
    /\ call' = Called("get_todays_priorities", <<>>)
    /\ ret' = get_todays_priorities(deadlines, goals, now)
    /\ raised' = None
    /\ UNCHANGED <<dynvars, memvars, dlvars, now, ncalls>>

(***************************************************************************)
(* Construction from the files on disk, DynamicMemory.save, and what the   *)
(* environment does to the files                                           *)
(***************************************************************************)
\* ProactiveAssistant(): a new object replaces the old one
NewProactiveAssistant ==
    LET self == initialize_your_life(load_deadlines(deadlines_file),
                                     load_goals(goals_file),
                                     deadlines_file, goals_file)
    IN  /\ deadlines' = self.deadlines
        /\ deadlines_file' = self.deadlines_file
        /\ goals' = self.goals
        /\ goals_file' = self.goals_file
        /\ call' = Called("ProactiveAssistant", <<>>)
        /\ ret' = <<>>
        /\ raised' = None
        /\ ncalls' = ncalls + 1
        /\ UNCHANGED <<dynvars, memvars, now>>

\* DynamicMemory(): when load raises there is no object
NewDynamicMemory ==
    LET r == load(memory_file, now)
    IN  /\ memory' = r.ret
        /\ raised' = r.raised
        /\ call' = Called("DynamicMemory", <<>>)
        /\ ret' = <<>>
        /\ ncalls' = ncalls + 1
        /\ UNCHANGED <<memory_file, memvars, dlvars, now>>

\* DynamicMemory.save
Save ==
    /\ memory # None
    /\ memory' = Some(save(memory[1], now))
    /\ memory_file' = Some(json_dump(memory'[1]))
    /\ call' = Called("save", <<>>)
    /\ ret' = <<>>
    /\ raised' = None
    /\ ncalls' = ncalls + 1
    /\ UNCHANGED <<memvars, dlvars, now>>

\* DynamicMemory.learn_from_conversation: the extractors, then save
LearnFromConversation(user_input) ==
    /\ memory # None
    /\ LET r == learn_from_conversation(memory[1], user_input, now)
       IN  /\ memory' = Some(r.memory)
           /\ memory_file' = IF r.saved THEN Some(json_dump(r.memory)) ELSE memory_file
           /\ raised' = r.raised
    /\ call' = Called("learn_from_conversation", <<user_input>>)
    /\ ret' = <<>>
    /\ ncalls' = ncalls + 1
    /\ UNCHANGED <<memvars, dlvars, now>>

\* ManualAcademic.add_deadline; parsed_date is None when dateparser finds no
\* date in the description
ManualAddDeadline(item, parsed_date) ==
    /\ IF parsed_date = None
       THEN /\ ret' = <<[success |-> FALSE, error |-> "Couldn't parse date"]>>
            /\ UNCHANGED memory_file
       ELSE /\ memory_file' = Some(json_dump(manual_add_deadline(memory_file, item,
                                                                parsed_date[1], now)))
            /\ ret' = <<[success |-> TRUE, item |-> title(item),
                         date |-> date(parsed_date[1])]>>
    /\ call' = Called("ManualAcademic.add_deadline", <<item, parsed_date>>)
    /\ raised' = None
    /\ ncalls' = ncalls + 1
    /\ UNCHANGED <<memory, memvars, dlvars, now>>

\* ManualAcademic.remove_deadline
ManualRemoveDeadline(item_name, day) ==
    /\ IF memory_file = None \/ ~parses(memory_file[1])
       THEN /\ ret' = <<[success |-> FALSE, error |-> "No memory file found"]>>
            /\ UNCHANGED memory_file
       ELSE LET doc == json_load(memory_file[1])
            IN  IF facts_to_remove(doc, item_name, day) # {}
                THEN /\ memory_file' = Some(json_dump(manual_remove_deadline(doc, item_name, day)))
                     /\ ret' = <<[success |-> TRUE,
                                  removed |-> {title(lower_item(item_name))}]>>
                ELSE /\ ret' = <<[success |-> FALSE, error |-> "Deadline not found"]>>
                     /\ UNCHANGED memory_file
    /\ call' = Called("ManualAcademic.remove_deadline", <<item_name, day>>)
    /\ raised' = None
    /\ ncalls' = ncalls + 1
    /\ UNCHANGED <<memory, memvars, dlvars, now>>

\* a write that was cut short leaves the file without a document
Truncate ==
    /\ \/ deadlines_file # None /\ deadlines_file' = Some(TRUNCATED)
          /\ UNCHANGED <<goals_file, memory_file>>
       \/ goals_file # None /\ goals_file' = Some(TRUNCATED)
          /\ UNCHANGED <<deadlines_file, memory_file>>
       \/ memory_file # None /\ memory_file' = Some(TRUNCATED)
          /\ UNCHANGED <<deadlines_file, goals_file>>
    /\ UNCHANGED <<memvars, deadlines, goals, memory, now, call, ret, raised, ncalls>>

\* the user deletes the data directory
Remove ==
    /\ deadlines_file' = None
    /\ goals_file' = None
    /\ memory_file' = None
    /\ UNCHANGED <<memvars, deadlines, goals, memory, now, call, ret, raised, ncalls>>

\* MemoryRecord(..., category=category, stale_threshold=stale_threshold)
NewMemoryRecord(category, stale_threshold) ==
    /\ ret' = <<MemoryRecordWith(created + 1, <<"note">>, now, "working", 5,
                                 category, stale_threshold)>>
    /\ created' = created + 1
    /\ call' = Called("MemoryRecord", <<category, stale_threshold>>)
    /\ raised' = None
    /\ ncalls' = ncalls + 1
    /\ UNCHANGED <<dynvars, working_memory, episodic_memory, semantic_memory, dlvars, now>>

(***************************************************************************)
(* SpecTier: the working and episodic tiers                                *)
(***************************************************************************)
TierInstants == {0, 24}

NextTier ==
    \/ ncalls < MaxTierCalls /\ AddWorking(<<"note">>, "task")
    \/ ncalls < MaxTierCalls /\ AddEpisodic(<<"event">>, 5, "task")
    \/ Tick(TierInstants)

SpecTier == Init /\ [][NextTier]_vars

(***************************************************************************)
(* SpecWork: a fresh manager that only receives add_to_working_memory      *)
(***************************************************************************)
WorkInstants == {0, 12, 24}

NextWork ==
    \/ ncalls < MaxTierCalls /\ AddWorking(<<"note">>, "task")
    \/ Tick(WorkInstants)

SpecWork == Init /\ [][NextWork]_vars

(***************************************************************************)
(* SpecSem: the semantic tier, staleness, refresh and context assembly     *)
(***************************************************************************)
SemInstants == {0, 8 * 24, 366 * 24}

\* <<content, importance, category>>
SemanticInputs ==
    { << <<"Finish", "essay">>, 8, "task" >>,
      << <<"Launch", "Beta">>, 5, "task" >>,
      << <<"Launch", "Gamma">>, 10, "identity" >>,
      << <<"SQL", "joins">>, 8, "knowledge" >> }

\* <<memory_id, new_content, verified>>
RefreshInputs ==
    { << <<"Launch">>, None, TRUE >>,
      << <<"Launch">>, Some(<<"Shipped">>), FALSE >>,
      << <<"Currently">>, None, TRUE >>,
      << <<"User", "is">>, Some(<<>>), FALSE >>,
      << <<"Finish", "essay">>, None, TRUE >>,
      << <<"Faith">>, None, FALSE >>,
      << <<"SQL">>, None, TRUE >>,
      << <<"Nobody">>, Some(<<"Shipped">>), TRUE >> }

NextSem ==
    \/ ncalls < MaxSemCalls /\ \E a \in SemanticInputs : AddSemantic(a[1], a[2], a[3])
    \/ ncalls < MaxSemCalls /\ \E a \in RefreshInputs : RefreshFact(a[1], a[2], a[3])
    \/ GetContextByPriority
    \/ IdentifyStaleFacts
    \/ Tick(SemInstants)

SpecSem == Init /\ [][NextSem]_vars

(***************************************************************************)
(* SpecDl: the deadline store                                              *)
(***************************************************************************)
DlInstants == {0, 12, 2 * 24, 9 * 24}

NAME_EXAM == <<"E", "x", "a", "m">>
NAME_QUIZ == <<"P", "o", "p", " ", "Q", "u", "i", "z">>
NAME_DATABASE_EXAM == <<"D", "a", "t", "a", "b", "a", "s", "e", " ", "E", "x", "a", "m">>
KEY_MISSING == <<"n", "o", "_", "s", "u", "c", "h", "_", "k", "e", "y">>

\* <<name, due_date, category, priority>>
DeadlineInputs ==
    { <<NAME_EXAM, 2 * 24, "academic", 90>>,
      <<NAME_EXAM, 2 * 24 + 12, "academic", 95>>,
      <<NAME_QUIZ, 2 * 24 + 6, "academic", 100>>,
      <<NAME_QUIZ, 9 * 24, "academic", 50>>,
      <<NAME_DATABASE_EXAM, 24, "academic", 95>> }

KEY_EXAM == deadline_key_of(NAME_EXAM)

\* <<deadline_key, progress, status>>
UpdateInputs ==
    { <<KEY_EXAM, None, Some("completed")>>,
      <<KEY_EXAM, Some(50), Some("in_progress")>>,
      <<KEY_EXAM, None, None>>,
      <<KEY_DATABASE_EXAM, None, Some("completed")>>,
      <<KEY_DATABASE_EXAM, Some(0), None>>,
      <<KEY_DATABASE_EXAM, None, Some("overdue")>>,
      <<KEY_MISSING, Some(50), Some("completed")>>,
      <<KEY_MISSING, None, None>> }

DaysThresholds == {0, 7, 31}

NextDl ==
    \/ ncalls < MaxDlCalls /\ \E a \in DeadlineInputs : AddDeadline(a[1], a[2], a[3], a[4])
    \/ ncalls < MaxDlCalls /\ \E u \in UpdateInputs : UpdateDeadline(u[1], u[2], u[3])
    \/ ncalls < MaxDlCalls /\ \E k \in {"75_hard", "missing"} : CompleteDailyGoal(k)
    \/ \E n \in DaysThresholds : GetUrgentDeadlines(n)
    \/ GetCriticalAlerts
    \/ GenerateRecommendations
    \/ GetTodaysPriorities
    \/ Tick(DlInstants)

SpecDl == Init /\ [][NextDl]_vars

(***************************************************************************)
(* SpecAll: both objects side by side, a few calls deep                    *)
(***************************************************************************)
AllInstants == {0, 12, 9 * 24}

\* <<memory_id, new_content, verified>>
AllRefreshInputs ==
    { << <<"Nobody">>, Some(<<"Shipped">>), TRUE >>,
      << <<"CMU">>, None, FALSE >>,
      << <<"Launch">>, None, TRUE >>,
      << <<"Finish">>, Some(<<"Done">>), FALSE >> }

\* <<deadline_key, progress, status>>
AllUpdateInputs ==
    { <<KEY_MISSING, Some(50), Some("completed")>>,
      <<KEY_EXAM, None, Some("in_progress")>>,
      <<KEY_DATABASE_EXAM, Some(100), Some("completed")>> }

NextAll ==
    \/ ncalls < MaxAllCalls /\ AddSemantic(<<"Finish", "essay">>, 8, "task")
    \/ ncalls < MaxAllCalls /\ \E a \in AllRefreshInputs : RefreshFact(a[1], a[2], a[3])
    \/ ncalls < MaxAllCalls /\ AddDeadline(NAME_EXAM, 2 * 24, "academic", 90)
    \/ ncalls < MaxAllCalls /\ \E u \in AllUpdateInputs : UpdateDeadline(u[1], u[2], u[3])
    \/ ncalls < MaxAllCalls /\ AddWorking(<<"note">>, "task")
    \/ Tick(AllInstants)

SpecAll == Init /\ [][NextAll]_vars

(***************************************************************************)
(* SpecBoot: files that are cut short or deleted, and objects built anew   *)
(***************************************************************************)
BootInstants == {0, 24}

NextBoot ==
    \/ ncalls < MaxBootCalls /\ AddDeadline(NAME_EXAM, 2 * 24, "academic", 90)
    \/ ncalls < MaxBootCalls /\ CompleteDailyGoal("75_hard")
    \/ ncalls < MaxBootCalls /\ Save
    \/ ncalls < MaxBootCalls /\ NewProactiveAssistant
    \/ ncalls < MaxBootCalls /\ NewDynamicMemory
    \/ Truncate
    \/ Remove
    \/ Tick(BootInstants)

SpecBoot == Init /\ [][NextBoot]_vars

(***************************************************************************)
(* SpecMem: records of every category.  The manager first receives working *)
(* notes until the working tier has overflowed once, then anything.        *)
(***************************************************************************)
MemInstants == {0, 8 * 24}

Categories == <<"identity", "values", "goals", "status", "task", "knowledge">>

\* the stale_threshold values a caller passes to the constructor
PassedThresholds == {0, 1000}

\* the number of records once the working tier has overflowed once
FullAt == Len(_load_initial_context(0)) + max_working_memory + 1

\* <<memory_id, new_content, verified>>
MemRefreshInputs ==
    { << <<"User", "is">>, Some(<<"Changed">>), TRUE >>,
      << <<"Faith">>, None, FALSE >> }

NextMem ==
    \/ created < FullAt /\ AddWorking(<<"note">>, Categories[(created % Len(Categories)) + 1])
    \/ /\ created >= FullAt
       /\ ncalls < max_working_memory + 1 + MaxMemCalls
       /\ \/ \E c \in Range(Categories) : AddWorking(<<"note">>, c)
          \/ AddEpisodic(<<"event">>, 5, "knowledge")
          \/ \E c \in Range(Categories) : AddSemantic(<<"Finish", "essay">>, 8, c)
          \/ \E a \in MemRefreshInputs : RefreshFact(a[1], a[2], a[3])
          \/ \E c \in Range(Categories), n \in PassedThresholds : NewMemoryRecord(c, n)
    \/ created >= FullAt /\ Tick(MemInstants)

SpecMem == Init /\ [][NextMem]_vars

(***************************************************************************)
(* SpecCtx: the three tiers side by side, staleness at the day boundary    *)
(* and the two reads of the semantic tier                                  *)
(***************************************************************************)
\* one day, a second short of eight days, eight days
CtxInstants == {0, 24, 8 * 24 - 1, 8 * 24}

\* <<content, importance, category>>
CtxSemanticInputs ==
    { << <<"SQL", "joins">>, 8, "knowledge" >>,
      << <<"Launch", "Delta">>, 8, "goals" >>,
      << <<"Finish", "essay">>, 8, "task" >> }

\* <<memory_id, new_content, verified>>
CtxRefreshInputs ==
    { << <<"User", "is">>, None, FALSE >>,
      << <<"Currently">>, None, TRUE >>,
      << <<"Launch">>, Some(<<"Shipped">>), TRUE >>,
      << <<>>, None, TRUE >> }

NextCtx ==
    \/ ncalls < MaxCtxCalls /\ AddWorking(<<"User", "is">>, "identity")
    \/ ncalls < MaxCtxCalls /\ AddEpisodic(<<"Campus", "visit">>, 10, "task")
    \/ ncalls < MaxCtxCalls /\ \E a \in CtxSemanticInputs : AddSemantic(a[1], a[2], a[3])
    \/ ncalls < MaxCtxCalls /\ \E a \in CtxRefreshInputs : RefreshFact(a[1], a[2], a[3])
    \/ GetContextByPriority
    \/ IdentifyStaleFacts
    \/ Tick(CtxInstants)

SpecCtx == Init /\ [][NextCtx]_vars

(***************************************************************************)
(* SpecShared: a DynamicMemory object and ManualAcademic on one memory.json *)
(***************************************************************************)
SharedInstants == {0, 24}

UserInputs ==
    { <<"hello">>,
      <<"remi", "is", "70%", "done">>,
      <<"75", "hard", "day", "25">>,
      <<"exam", "done">> }

\* <<item, parsed_date>>
ManualInputs ==
    { <<"essay", Some(2 * 24)>>,
      <<"exam", Some(3 * 24 + 14)>>,
      <<"essay", None>> }

NextShared ==
    \/ ncalls < MaxSharedCalls /\ \E u \in UserInputs : LearnFromConversation(u)
    \/ ncalls < MaxSharedCalls /\ Save
    \/ ncalls < MaxSharedCalls /\ NewDynamicMemory
    \/ ncalls < MaxSharedCalls /\ \E a \in ManualInputs : ManualAddDeadline(a[1], a[2])
    \/ ncalls < MaxSharedCalls /\ ManualRemoveDeadline("Essay", 2)
    \/ Tick(SharedInstants)

SpecShared == Init /\ [][NextShared]_vars

(***************************************************************************)
(* Properties                                                              *)
(***************************************************************************)
Ids(s) == [i \in 1..Len(s) |-> s[i].id]

InitialRecords == Len(_load_initial_context(0))

\* C1: after every add_to_working_memory call the working tier holds at
\* most max_working_memory (10) records.
C1_WorkingBound == Len(working_memory) <= max_working_memory

\* a full working tier right after a call that evicted a record
C1_Witness ==
    /\ call.op = "add_to_working_memory"
    /\ Len(working_memory) = max_working_memory
    /\ Len(episodic_memory) >= 1
    /\ \E i \in 1..Len(episodic_memory) :
           episodic_memory[i].id < working_memory[1].id

\* what one add_to_working_memory call does to the two tiers
C2_Step ==
    (call'.op = "add_to_working_memory" /\ ncalls' = ncalls + 1) =>
        LET new == working_memory'[Len(working_memory')]
        IN  /\ new.id = created'
            /\ new.memory_type = "working"
            /\ IF Len(working_memory) = max_working_memory
               THEN LET ev == episodic_memory'[Len(episodic_memory')]
                    IN  /\ Len(episodic_memory') = Len(episodic_memory) + 1
                        /\ SubSeq(episodic_memory', 1, Len(episodic_memory)) = episodic_memory
                        /\ ev = [working_memory[1] EXCEPT !.memory_type = "episodic"]
                        /\ \A i \in 1..Len(working_memory) :
                               /\ ev.timestamp <= working_memory[i].timestamp
                               /\ ev.id <= working_memory[i].id
                        /\ working_memory' = Tail(working_memory) \o <<new>>
               ELSE /\ episodic_memory' = episodic_memory
                    /\ working_memory' = Append(working_memory, new)

\* after N calls on a fresh manager: working = the last min(N,10) records,
\* episodic = the first max(0,N-10) records, both in insertion order
C2_Tiers ==
    LET N == ncalls
        first == InitialRecords + 1
        kept == Min(N, max_working_memory)
        gone == Max(0, N - max_working_memory)
    IN  /\ Ids(episodic_memory) = [i \in 1..gone |-> first + i - 1]
        /\ Ids(working_memory) = [i \in 1..kept |-> first + gone + i - 1]
        /\ \A i \in 1..Len(episodic_memory) : episodic_memory[i].memory_type = "episodic"
        /\ \A i \in 1..Len(working_memory) : working_memory[i].memory_type = "working"

\* C2: a call that pushes the working tier past capacity evicts exactly one
\* record, the earliest inserted one, which has the smallest timestamp; it is
\* re-tagged episodic and appended at the end of the episodic tier.  Hence
\* after N add_to_working_memory calls on a fresh manager the working tier is
\* the last min(N,10) records and the episodic tier the first max(0,N-10).
C2_FifoEviction == [][C2_Step]_vars /\ []C2_Tiers

\* 11 adds: episodic holds exactly the first record, working the last 10
C2_Witness ==
    /\ ncalls = 11
    /\ call.op = "add_to_working_memory"
    /\ Ids(episodic_memory) = <<InitialRecords + 1>>
    /\ Len(working_memory) = 10
    /\ working_memory[1].timestamp < working_memory[10].timestamp

\* the step is a mutating call of op
Mutates(op) == call'.op = op /\ ncalls' = ncalls + 1

\* the index of the record refresh_fact picks for memory_id, 0 when none
FirstMatch(sem, memory_id) ==
    LET hits == {i \in 1..Len(sem) :
                    /\ Len(memory_id) <= Len(sem[i].content)
                    /\ SubSeq(sem[i].content, 1, Len(memory_id)) = memory_id}
    IN  IF hits = {} THEN 0 ELSE CHOOSE i \in hits : \A j \in hits : i <= j

\* C3: while last_verified of a record is not updated and the clock does not
\* go back, is_stale() of that record never returns from true to false, and
\* it turns true only when the clock has moved and the elapsed whole days
\* exceed the threshold of the record's category.
C3_StalenessMonotone ==
    [][\A i \in 1..Len(semantic_memory) :
          semantic_memory'[i].last_verified = semantic_memory[i].last_verified =>
              /\ is_stale(semantic_memory[i], now) => is_stale(semantic_memory'[i], now')
              /\ (~is_stale(semantic_memory[i], now) /\ is_stale(semantic_memory'[i], now')) =>
                     /\ now' > now
                     /\ Days(now' - semantic_memory[i].last_verified) >
                            category_thresholds(semantic_memory[i].category)]_vars

\* a record that went stale untouched, next to one that a refresh made fresh
C3_Witness ==
    /\ now > 0
    /\ \E i \in 1..Len(semantic_memory) :
           /\ semantic_memory[i].last_verified = 0
           /\ is_stale(semantic_memory[i], now)
    /\ \E j \in 1..Len(semantic_memory) :
           /\ semantic_memory[j].timestamp = 0
           /\ semantic_memory[j].last_verified = now
           /\ ~is_stale(semantic_memory[j], now)

\* C4: refresh_fact sets last_verified = now and confidence = 1.0 (verified)
\* or 0.5 (not verified) on the record it matches, which is therefore not
\* stale right after the call, whatever its category.
C4_RefreshSets ==
    [][Mutates("refresh_fact") =>
          LET i == FirstMatch(semantic_memory, call'.args[1])
          IN  i # 0 =>
                /\ semantic_memory'[i].last_verified = now
                /\ semantic_memory'[i].confidence = (IF call'.args[3] THEN 10 ELSE 5)
                /\ ~is_stale(semantic_memory'[i], now')]_vars

\* the status fact "Currently ..." of hour 0, stale after 8 days, just refreshed
C4_Witness ==
    /\ ncalls = 1
    /\ call.op = "refresh_fact"
    /\ call.args[1] = <<"Currently">>
    /\ now = 8 * 24
    /\ call.at = now
    /\ LET i == FirstMatch(semantic_memory, <<"Currently">>)
       IN  /\ semantic_memory[i].category = "status"
           /\ semantic_memory[i].timestamp = 0
           /\ semantic_memory[i].last_verified = now
           /\ ~is_stale(semantic_memory[i], now)

\* C5: a refresh_fact call that immediately follows an identical call at the
\* same clock reading changes no record's confidence or last_verified.
C5_RefreshIdempotent ==
    [][(/\ call.op = "refresh_fact"
        /\ Mutates("refresh_fact")
        /\ call'.args = call.args
        /\ call'.at = call.at) =>
          \A i \in 1..Len(semantic_memory) :
              /\ semantic_memory'[i].confidence = semantic_memory[i].confidence
              /\ semantic_memory'[i].last_verified = semantic_memory[i].last_verified]_vars

CategoryRank(c) ==
    CASE c = "identity" -> 1
      [] c = "values"   -> 2
      [] c = "goals"    -> 3
      [] c = "status"   -> 4
      [] c = "task"     -> 5
      [] OTHER          -> 6

\* what get_context_by_priority returns is what stands in ret after the call
ContextReturned ==
    (call.op = "get_context_by_priority" /\ call.at = now) =>
        ret = get_context_by_priority(semantic_memory, now)

\* C6: in the output of get_context_by_priority the lines of identity records
\* come first, then values, goals, status and task, whatever the order in
\* which the records were inserted.
C6_CategoryOrder ==
    LET recs == context_records(semantic_memory, categories, now)
    IN  /\ \A i, j \in 1..Len(recs) :
               i < j => CategoryRank(recs[i].category) <= CategoryRank(recs[j].category)
        /\ \A i \in 1..Len(recs) : CategoryRank(recs[i].category) <= 5
        /\ ContextReturned

\* an identity record inserted after a task record is emitted first, the
\* task record last
C6_Witness ==
    /\ call.op = "get_context_by_priority"
    /\ call.at = now
    /\ Len(semantic_memory) = InitialRecords + 2
    /\ semantic_memory[InitialRecords + 1].category = "task"
    /\ semantic_memory[InitialRecords + 2].category = "identity"
    /\ Len(ret) >= 3
    /\ ret[1] = semantic_memory[InitialRecords + 2].content
    /\ ret[Len(ret)] = semantic_memory[InitialRecords + 1].content
    /\ \E i \in 1..Len(ret) : ret[i] \in {value_facts[k] : k \in 1..Len(value_facts)}

Count(s, Test(_)) == Len(SelectSeq(s, Test))

\* C7: one get_context_by_priority call emits at most 3 records of any one
\* category, hence at most 15 in all.
C7_PerCategoryCap ==
    LET recs == context_records(semantic_memory, categories, now)
    IN  /\ \A k \in 1..Len(categories) :
               Count(recs, LAMBDA m : m.category = categories[k]) <= 3
        /\ Len(recs) <= 15
        /\ (call.op = "get_context_by_priority" /\ call.at = now) => Len(ret) = Len(recs)

\* seven identity records qualify, three lines of them are returned
C7_Witness ==
    /\ call.op = "get_context_by_priority"
    /\ call.at = now
    /\ Count(semantic_memory, LAMBDA m : /\ m.category = "identity"
                                         /\ ~is_stale(m, now)
                                         /\ m.confidence > 7) = 7
    /\ Len(ret) >= 9
    /\ ret[3] \in {identity_facts[k] : k \in 1..Len(identity_facts)}
    /\ ret[4] \in {value_facts[k] : k \in 1..Len(value_facts)}

Active(x) == x.status \in {"pending", "in_progress"}

DaysLeft(x) == (x.due_date - now) \div 24

\* the position of a deadline in the dict
PositionOf(x) == CHOOSE i \in 1..Len(deadlines) : deadlines[i][2] = x

\* what get_urgent_deadlines returns is what stands in ret after the call
UrgentReturned ==
    (call.op = "get_urgent_deadlines" /\ call.at = now) =>
        ret = get_urgent_deadlines(deadlines, call.args[1], now)

\* C8: the list get_urgent_deadlines returns is in ascending order of the
\* days left, and among deadlines with the same days left the one with the
\* higher priority comes first (for the threshold 7 and the others tried).
C8_UrgentOrder ==
    /\ \A n \in DaysThresholds :
           LET u == get_urgent_deadlines(deadlines, n, now)
           IN  \A i, j \in 1..Len(u) :
                   i < j => \/ DaysLeft(u[i]) < DaysLeft(u[j])
                            \/ /\ DaysLeft(u[i]) = DaysLeft(u[j])
                               /\ u[i].priority >= u[j].priority
    /\ UrgentReturned

\* get_urgent_deadlines(7) returned three deadlines due in 2 days, the one
\* added last ahead of one added before it because its priority is higher
C8_Witness ==
    /\ call.op = "get_urgent_deadlines"
    /\ call.args = <<7>>
    /\ call.at = now
    /\ \E i, j, k \in 1..Len(ret) :
           /\ i < j /\ j < k
           /\ DaysLeft(ret[i]) = 2 /\ DaysLeft(ret[j]) = 2 /\ DaysLeft(ret[k]) = 2
           /\ ret[j].priority > ret[k].priority
           /\ PositionOf(ret[j]) > PositionOf(ret[k])
    /\ DaysLeft(ret[1]) = 0

C10_NotFoundNoOp ==
    [][/\ (Mutates("refresh_fact") /\ FirstMatch(semantic_memory, call'.args[1]) = 0) =>
              /\ raised' = None
              /\ UNCHANGED <<memvars, dlvars>>
       /\ (Mutates("update_deadline") /\ call'.args[1] \notin DictKeys(deadlines)) =>
              /\ raised' = None
              /\ UNCHANGED <<memvars, dlvars>>]_vars

\* two calls were made, the last a refresh_fact that matched nothing, and
\* the tiers, the deadlines and the file are still those of construction
C10_Witness ==
    /\ ncalls = 2
    /\ call.op = "refresh_fact"
    /\ FirstMatch(semantic_memory, call.args[1]) = 0
    /\ semantic_memory = _load_initial_context(0)
    /\ deadlines = current_deadlines
    /\ deadlines_file = save_deadlines(current_deadlines)

(***************************************************************************)
(* Construction, the evaluator and malformed files                         *)
(***************************************************************************)
\* the entries of a dict, as a set
Entries(d) == Range(d)

\* the deadlines a file holds: those of the document when it parses
HeldBy(file) == IF file # None /\ parses(file[1]) THEN Entries(load_deadlines(file)) ELSE {}

\* the goals a file holds
GoalsHeldBy(file) == IF file # None /\ parses(file[1]) THEN Entries(load_goals(file)) ELSE {}

\* C11: every deadline the store holds was created by an add_deadline call
\* or loaded from the persisted file, and no goal is ever made up: a
\* construction leaves in the store only what the files held, an add_deadline
\* call adds only the deadline it was given, and no other step adds a
\* deadline or a goal.
C11_OnlyWhatWasTold ==
    [][IF Mutates("ProactiveAssistant")
       THEN /\ Entries(deadlines') \subseteq HeldBy(deadlines_file)
            /\ Entries(goals') \subseteq GoalsHeldBy(goals_file)
       ELSE /\ \A e \in Entries(deadlines') \ Entries(deadlines) :
                  /\ Mutates("add_deadline")
                  /\ e[2].name = call'.args[1]
               \/ /\ Mutates("update_deadline")
                  /\ e[1] = call'.args[1]
                  /\ e[1] \in DictKeys(deadlines)
            /\ DictKeys(goals') \subseteq DictKeys(goals)]_vars

ReadOps == {"get_critical_alerts", "generate_recommendations",
            "get_urgent_deadlines", "get_todays_priorities"}

\* C12: get_critical_alerts, generate_recommendations, get_urgent_deadlines
\* and get_todays_priorities leave the deadlines and the goals, in memory
\* and on disk, as they were (and the memory tiers too).
C12_ReadOnly ==
    [][call'.op \in ReadOps => UNCHANGED <<dlvars, memvars>>]_vars

\* get_critical_alerts has just reported an overdue deadline on a store that
\* two calls had changed before; the file still mirrors the store
C12_Witness ==
    /\ call.op = "get_critical_alerts"
    /\ call.at = now
    /\ ncalls = 2
    /\ Len(ret) >= 1
    /\ deadlines # current_deadlines
    /\ deadlines_file = save_deadlines(deadlines)

\* a file that exists and does not parse
Malformed(file) == file # None /\ ~parses(file[1])

\* C13: when the persisted file exists and fails to parse, constructing
\* DynamicMemory raises nothing and leaves the empty memory structure, and
\* constructing ProactiveAssistant raises nothing and leaves the dict that
\* file feeds empty.
C13_MalformedFallsBack ==
    [][/\ (Mutates("DynamicMemory") /\ Malformed(memory_file)) =>
              /\ raised' = None
              /\ memory' = Some(empty_memory(now))
       /\ (Mutates("ProactiveAssistant") /\ Malformed(deadlines_file)) =>
              /\ raised' = None
              /\ deadlines' = <<>>
       /\ (Mutates("ProactiveAssistant") /\ Malformed(goals_file)) =>
              /\ raised' = None
              /\ goals' = <<>>]_vars

(***************************************************************************)
(* Records and their categories                                            *)
(***************************************************************************)
\* the staleness table, in days
TableDays(category) ==
    IF category = "identity" THEN 365
    ELSE IF category = "values" THEN 180
    ELSE IF category = "goals" THEN 30
    ELSE IF category = "status" THEN 7
    ELSE IF category = "task" THEN 1
    ELSE 30

\* the records of the three tiers
AllRecords == Range(working_memory) \cup Range(episodic_memory) \cup Range(semantic_memory)

\* the records a caller holds: those of the tiers and the one a constructor
\* call has just returned
HeldRecords == AllRecords \cup (IF call.op = "MemoryRecord" THEN Range(ret) ELSE {})

C14_Table == \A m \in HeldRecords : m.stale_threshold = TableDays(m.category)

C14_Step ==
    \A m \in AllRecords : \A n \in AllRecords' : n.id = m.id => n.category = m.category

\* C14: in every reachable state the stale_threshold of each record is the
\* table applied to its category (identity 365, values 180, goals 30,
\* status 7, task 1, anything else 30), whatever stale_threshold the
\* constructor was given, and no operation of the manager changes the
\* category of a record.
C14_ThresholdFromCategory == []C14_Table /\ [][C14_Step]_vars

\* the working tier has overflowed into the episodic tier, a knowledge
\* record was then added to the semantic tier, and the last call built a
\* status record with stale_threshold=1000 that came back with 7
C14_Witness ==
    /\ call.op = "MemoryRecord"
    /\ call.args = <<"status", 1000>>
    /\ ret[1].stale_threshold = 7
    /\ \E m \in Range(episodic_memory) : m.memory_type = "episodic" /\ m.category = "status"
    /\ \E m \in Range(semantic_memory) : m.category = "knowledge" /\ m.stale_threshold = 30
    /\ {m.category : m \in Range(working_memory)} = Range(Categories)

(***************************************************************************)
(* The deadline store, call by call                                        *)
(***************************************************************************)
\* the key expected for each name the calls use
ExpectedKey(name) ==
    IF name = NAME_EXAM THEN <<"e", "x", "a", "m">>
    ELSE IF name = NAME_QUIZ THEN <<"p", "o", "p", "_", "q", "u", "i", "z">>
    ELSE <<"d", "a", "t", "a", "b", "a", "s", "e", "_", "e", "x", "a", "m">>

\* the positions of a key in a dict
Where(d, k) == {i \in 1..Len(d) : d[i][1] = k}

\* the entries stored under other keys than k
Others(d, k) == {d[i] : i \in 1..Len(d) \ Where(d, k)}

\* C15: add_deadline(name, ...) stores, under the lowercased name with
\* spaces turned into underscores, a deadline with the given fields, status
\* pending and progress 0.0, returns that key and leaves every other key as
\* it was; when the key was already stored its deadline is replaced, status
\* and progress included, and the number of deadlines does not grow.
C15_AddDeadline ==
    [][Mutates("add_deadline") =>
          LET k == ExpectedKey(call'.args[1])
          IN  /\ ret' = k
              /\ Cardinality(Where(deadlines', k)) = 1
              /\ \A i \in Where(deadlines', k) :
                    deadlines'[i][2] =
                        [ name |-> call'.args[1], due_date |-> call'.args[2],
                          category |-> call'.args[3], priority |-> call'.args[4],
                          description |-> "", status |-> "pending",
                          estimated_hours |-> 10, progress |-> 0,
                          reminders |-> <<>> ]
              /\ Others(deadlines', k) = Others(deadlines, k)
              /\ Len(deadlines') = Len(deadlines) + (IF Where(deadlines, k) = {} THEN 1 ELSE 0)]_vars

\* "Database Exam" was added over the stored database_exam (80% done): four
\* deadlines still, and the stored one is the new one at 0%
C15_Witness ==
    /\ call.op = "add_deadline"
    /\ call.args[1] = NAME_DATABASE_EXAM
    /\ ret = KEY_DATABASE_EXAM
    /\ Len(deadlines) = 4
    /\ deadlines[1][2].name = NAME_DATABASE_EXAM
    /\ deadlines[1][2].progress = 0
    /\ deadlines[1][2].due_date = 24

\* C16: update_deadline on a stored key gives exactly the supplied fields
\* among progress and status the supplied values (progress=0.0 included) and
\* leaves every other field of that deadline and every other deadline as they
\* were; with neither supplied the stored deadline is unchanged.
C16_PartialUpdate ==
    [][(Mutates("update_deadline") /\ Where(deadlines, call'.args[1]) # {}) =>
          LET k == call'.args[1]
              progress == call'.args[2]
              status == call'.args[3]
          IN  /\ Len(deadlines') = Len(deadlines)
              /\ \A i \in 1..Len(deadlines) :
                    IF i \in Where(deadlines, k)
                    THEN /\ deadlines'[i][1] = k
                         /\ deadlines'[i][2] =
                               [deadlines[i][2] EXCEPT
                                   !.progress = IF progress = <<>> THEN @ ELSE progress[1],
                                   !.status = IF status = <<>> THEN @ ELSE status[1]]
                    ELSE deadlines'[i] = deadlines[i]]_vars

\* update_deadline('database_exam', progress=0.0) has set the stored 0.8 to
\* 0.0 and left the status pending
C16_Witness ==
    /\ call.op = "update_deadline"
    /\ call.args = <<KEY_DATABASE_EXAM, <<0>>, <<>>>>
    /\ deadlines[1][2].progress = 0
    /\ deadlines[1][2].status = "pending"
    /\ current_deadlines[1][2].progress = 80

\* C17: the streak of a goal changes only through complete_daily_goal: a
\* call on a stored key sets last_completed to now and adds exactly 1 to the
\* streak, also twice on the same day and after a gap of more than a day;
\* every other step leaves the streak of every goal as it was.
C17_StreakStep ==
    [][/\ Len(goals') = Len(goals)
       /\ \A i \in 1..Len(goals) :
             /\ goals'[i][1] = goals[i][1]
             /\ IF Mutates("complete_daily_goal") /\ call'.args = <<goals[i][1]>>
                THEN /\ goals'[i][2].streak = goals[i][2].streak + 1
                     /\ goals'[i][2].last_completed = <<now>>
                ELSE /\ goals'[i][2].streak = goals[i][2].streak
                     /\ goals'[i][2].last_completed = goals[i][2].last_completed]_vars

\* 75_hard, last completed two days before the start (at risk), was
\* completed twice at the same instant nine days later: 24 -> 26
C17_Witness ==
    /\ call.op = "complete_daily_goal"
    /\ ncalls = 2
    /\ now = 9 * 24
    /\ goals[1][1] = "75_hard"
    /\ goals[1][2].streak = 26
    /\ goals[1][2].last_completed = <<now>>
    /\ current_goals[1][2].streak = 24

\* the statuses deadlines.json holds
StatusesOnDisk ==
    IF deadlines_file = <<>> \/ Len(deadlines_file[1]) # 1 THEN {}
    ELSE {deadlines_file[1][1][i][2].status : i \in 1..Len(deadlines_file[1][1])}

\* the keys stored with status overdue
OverdueKeys(d) == {d[i][1] : i \in {j \in 1..Len(d) : d[j][2].status = "overdue"}}

\* the critical alerts of a list of alerts
Critical(alerts) == SelectSeq(alerts, LAMBDA a : a.priority = "critical")

\* the stored deadlines that are past due and not completed
PastDue == {i \in 1..Len(deadlines) :
               deadlines[i][2].due_date < now /\ deadlines[i][2].status # "completed"}

\* C18 as the specification states it: no deadline, in memory or on disk,
\* ever has status overdue.
C18_NeverStoredOverdue ==
    /\ \A i \in 1..Len(deadlines) : deadlines[i][2].status # "overdue"
    /\ "overdue" \notin StatusesOnDisk

C18_Step ==
    \A k \in OverdueKeys(deadlines') \ OverdueKeys(deadlines) :
        /\ Mutates("update_deadline")
        /\ call'.args[1] = k
        /\ call'.args[3] = <<"overdue">>

C18_Read ==
    (call.op = "get_critical_alerts" /\ call.at = now) =>
        Len(Critical(ret)) = Cardinality(PastDue)

C18_Disk == ("overdue" \in StatusesOnDisk) => OverdueKeys(deadlines) # {}

\* C18, amended: a stored deadline gets status overdue only from an
\* update_deadline call that supplies status=overdue for its key (the file
\* holds it only while the store does); no read, no clock advance and no
\* other call writes it, and get_critical_alerts derives overdue at read
\* time as due_date < now and status != completed.
C18_OverdueOnlyWhenSupplied == [][C18_Step]_vars /\ []C18_Read /\ []C18_Disk

\* update_deadline('database_exam', status='overdue') was made while the exam
\* was not yet due: the status is stored and saved, and get_critical_alerts
\* then reports nothing
C18_Witness ==
    /\ call.op = "get_critical_alerts"
    /\ call.at = now
    /\ ret = <<>>
    /\ OverdueKeys(deadlines) = {KEY_DATABASE_EXAM}
    /\ "overdue" \in StatusesOnDisk

(***************************************************************************)
(* What get_critical_alerts returns                                        *)
(***************************************************************************)
\* the alerts of priority high of a list of alerts
High(alerts) == SelectSeq(alerts, LAMBDA a : a.priority = "high")

\* the stored goals with a daily requirement
Daily == {i \in 1..Len(goals) :
             goals[i][2].daily_requirement # <<>> /\ goals[i][2].daily_requirement # <<"">>}

\* the stored goals last completed more than limit hours before now
CompletedBefore(limit) ==
    {i \in Daily : /\ goals[i][2].last_completed # <<>>
                   /\ now - goals[i][2].last_completed[1] > limit}

\* the alerts are critical ones followed by high ones, one critical alert
\* per past-due deadline and one high alert per goal of atRisk, each naming
\* its deadline or goal
AlertsAre(alerts, atRisk) ==
    /\ \A i \in 1..Len(alerts) : alerts[i].priority \in {"critical", "high"}
    /\ \A i, j \in 1..Len(alerts) :
          (alerts[i].priority = "high" /\ alerts[j].priority = "critical") => j < i
    /\ Len(Critical(alerts)) = Cardinality(PastDue)
    /\ \A i \in PastDue :
          Cardinality({j \in 1..Len(Critical(alerts)) :
                          /\ Critical(alerts)[j].message[1] = deadlines[i][2].name
                          /\ Critical(alerts)[j].deadline = <<deadlines[i][2].due_date>>}) = 1
    /\ Len(High(alerts)) = Cardinality(atRisk)
    /\ \A i \in atRisk :
          Cardinality({j \in 1..Len(High(alerts)) :
                          High(alerts)[j].message[1] = goals[i][2].name}) = 1

\* C19 as the specification states it: the goals reported are those last
\* completed more than 1 day (24 hours) before now.
C19_AlertsAfterOneDay ==
    (call.op = "get_critical_alerts" /\ call.at = now) =>
        AlertsAre(ret, CompletedBefore(24))

\* C19, amended: get_critical_alerts returns exactly one critical alert per
\* stored deadline with due_date < now and status != completed, followed by
\* exactly one high alert per stored goal that has a daily requirement and
\* was last completed at least 2 whole days (48 hours) before now, and no
\* other alert; every alert names a stored deadline or goal.
C19_AlertsAfterTwoDays ==
    (call.op = "get_critical_alerts" /\ call.at = now) =>
        AlertsAre(ret, CompletedBefore(47))

\* 75_hard was completed at hour 12 and the alerts were asked for at hour
\* 48, a day and a half later: the exam is reported as overdue and the
\* goal is not reported
C19_Witness ==
    /\ call.op = "get_critical_alerts"
    /\ call.at = now
    /\ now = 48
    /\ goals[1][2].last_completed = <<12>>
    /\ Len(Critical(ret)) = 1
    /\ High(ret) = <<>>

(***************************************************************************)
(* Persistence                                                             *)
(***************************************************************************)
\* the content of the file of the three tiers: MemorySystem opens no file,
\* in no method, so there is none
tiers_file == None

TierOps == {"add_to_working_memory", "add_to_episodic_memory",
            "add_to_semantic_memory", "refresh_fact"}

StoreOps == {"add_deadline", "update_deadline", "complete_daily_goal"}

\* C20: after every mutating call on the memory tiers and on the deadline
\* store returns, the persisted file content equals the in-memory state.
C20_WriteThrough ==
    [][/\ (\E op \in TierOps : Mutates(op)) =>
              tiers_file = Some(json_dump(<<working_memory', episodic_memory',
                                            semantic_memory'>>))
       /\ (\E op \in StoreOps : Mutates(op)) =>
              /\ deadlines_file' = save_deadlines(deadlines')
              /\ goals_file' = save_goals(goals')]_vars

(***************************************************************************)
(* The life of a stored deadline                                           *)
(***************************************************************************)
\* the place of a status on the path pending -> in_progress -> completed
StatusRank(status) ==
    IF status = "pending" THEN 1
    ELSE IF status = "in_progress" THEN 2
    ELSE IF status = "completed" THEN 3
    ELSE 0

\* the status stored under key k
StatusOf(d, k) == d[CHOOSE i \in Where(d, k) : TRUE][2].status

\* the keys stored before and after the step whose status has changed
StatusChanged ==
    {k \in DictKeys(deadlines) \cap DictKeys(deadlines') :
        StatusOf(deadlines', k) # StatusOf(deadlines, k)}

\* C21 as the specification states it: the status of a stored deadline never
\* moves back from completed to in_progress or pending, nor from in_progress
\* to pending.
C21_StatusForwardOnly ==
    [][\A k \in DictKeys(deadlines) \cap DictKeys(deadlines') :
          (StatusRank(StatusOf(deadlines, k)) # 0 /\ StatusRank(StatusOf(deadlines', k)) # 0)
              => StatusRank(StatusOf(deadlines', k)) >= StatusRank(StatusOf(deadlines, k))]_vars

\* C21, amended: the store enforces no order on the status.  The status
\* stored under a key changes only in an update_deadline call for that key
\* that supplies a status, which becomes the stored status whatever the old
\* one was (completed -> pending included), and in an add_deadline call whose
\* name gives that key, which makes it pending; reads, clock advances,
\* complete_daily_goal and update_deadline without a status leave it alone.
C21_StatusAsSupplied ==
    [][\A k \in StatusChanged :
          \/ /\ Mutates("update_deadline")
             /\ call'.args[1] = k
             /\ call'.args[3] = <<StatusOf(deadlines', k)>>
          \/ /\ Mutates("add_deadline")
             /\ ExpectedKey(call'.args[1]) = k
             /\ StatusOf(deadlines', k) = "pending"]_vars

\* database_exam was set to completed and then "Database Exam" was added:
\* its stored status is pending again
C21_Witness ==
    /\ ncalls = 2
    /\ call.op = "add_deadline"
    /\ call.args[1] = NAME_DATABASE_EXAM
    /\ deadlines_file = save_deadlines(deadlines)
    /\ StatusOf(deadlines, KEY_DATABASE_EXAM) = "pending"
    /\ deadlines[1][2].progress = 0
    /\ now = 9 * 24

\* C27: a key that is in the deadline store stays in it through add_deadline,
\* update_deadline, complete_daily_goal, the reads and the clock: the key set
\* never shrinks.
C27_KeysNeverShrink ==
    [][DictKeys(deadlines) \subseteq DictKeys(deadlines')]_vars

\* exam was added and then set to completed, long past due: all five keys
\* are still stored
C27_Witness ==
    /\ ncalls = 2
    /\ call.op = "update_deadline"
    /\ call.args = <<KEY_EXAM, <<>>, <<"completed">>>>
    /\ StatusOf(deadlines, KEY_EXAM) = "completed"
    /\ DictKeys(deadlines) = DictKeys(current_deadlines) \cup {KEY_EXAM}

(***************************************************************************)
(* The reads of the semantic tier                                          *)
(***************************************************************************)
\* the whole days in a span of hours
WholeDays(hours) == hours \div 24

\* the record is stale now
StaleNow(m) == WholeDays(now - m.last_verified) > m.stale_threshold

\* the record qualifies for the context now
Qualifies(m) ==
    /\ m.category \in {"identity", "values", "goals", "status", "task"}
    /\ ~StaleNow(m)
    /\ m.confidence > 7

\* the records behind the context at this instant
Emitted == context_records(semantic_memory, categories, now)

\* C22: a record's content is in the output of get_context_by_priority only
\* if the record is in the semantic tier, its category is one of identity,
\* values, goals, status, task, it is not stale at the call and its
\* confidence is above 0.7: no working or episodic record, no knowledge
\* record and no record refreshed with verified=False is emitted.
C22_OnlyQualifying ==
    LET e == Emitted
    IN  /\ \A i \in 1..Len(e) :
              /\ e[i] \in Range(semantic_memory)
              /\ e[i] \notin Range(working_memory) \cup Range(episodic_memory)
              /\ e[i].memory_type = "semantic"
              /\ Qualifies(e[i])
        /\ (call.op = "get_context_by_priority" /\ call.at = now) =>
              ret = [i \in 1..Len(e) |-> e[i].content]

\* "User is" was refreshed with verified=False and a working record with
\* the same content and category identity was added: the context has
\* identity lines and "User is" is not among them
C22_Witness ==
    /\ call.op = "get_context_by_priority"
    /\ call.at = now
    /\ semantic_memory[1].content = <<"User", "is">>
    /\ semantic_memory[1].confidence = 5
    /\ \E m \in Range(working_memory) : m.content = <<"User", "is">> /\ m.category = "identity"
    /\ <<"User", "is">> \notin Range(ret)
    /\ ret[1] \in Range(identity_facts)

\* a comes before b in descending order of (importance, timestamp)
Greater(a, b) ==
    \/ a.importance > b.importance
    \/ a.importance = b.importance /\ a.timestamp > b.timestamp

\* the records of a category in a list
Of(c, records) == SelectSeq(records, LAMBDA m : m.category = c)

\* the emitted records of a category
EmittedOf(c) == Of(c, Emitted)

\* the semantic records of a category that qualify
QualifyingOf(c) == {m \in Range(semantic_memory) : m.category = c /\ Qualifies(m)}

\* C23: within each category get_context_by_priority emits the qualifying
\* records in descending order of (importance, timestamp), and the up to 3
\* emitted are the greatest: no omitted qualifying record has a higher
\* importance, or the same importance and a later timestamp, than an
\* emitted one.
C23_TopByImportanceThenRecency ==
    LET all == Emitted
    IN  \A k \in 1..Len(categories) :
            LET c == categories[k]
                e == Of(c, all)
                q == QualifyingOf(c)
            IN  /\ \A i, j \in 1..Len(e) : i < j => ~Greater(e[j], e[i])
                /\ Len(e) = Min(3, Cardinality(q))
                /\ Range(e) \subseteq q
                /\ \A m \in q \ Range(e) : \A i \in 1..Len(e) : ~Greater(m, e[i])

\* a goals record added a day after the initial ones, with their importance
\* 0.8, is the first goals line of the context, and six older goals records
\* that qualify are left out
C23_Witness ==
    /\ call.op = "get_context_by_priority"
    /\ call.at = now
    /\ Len(semantic_memory) > InitialRecords
    /\ semantic_memory[Len(semantic_memory)].content = <<"Launch", "Delta">>
    /\ semantic_memory[Len(semantic_memory)].timestamp = 24
    /\ semantic_memory[Len(semantic_memory)].importance = 8
    /\ Len(EmittedOf("goals")) = 3
    /\ EmittedOf("goals")[1].content = <<"Launch", "Delta">>
    /\ EmittedOf("goals")[2].timestamp = 0
    /\ Cardinality(QualifyingOf("goals")) >= 9
    /\ ret[7] = <<"Launch", "Delta">>

\* C24: is_stale() is evaluated against the clock at each read and is true
\* exactly when the whole days elapsed since last_verified exceed
\* stale_threshold: whole days equal to the threshold are not stale, one
\* more day is.
C24_StaleStrictlyAfterThreshold ==
    /\ \A m \in AllRecords : is_stale(m, now) <=> StaleNow(m)
    /\ (call.op = "identify_stale_facts" /\ call.at = now) =>
          \A m \in Range(semantic_memory) : (m \in Range(ret)) <=> StaleNow(m)

\* eight days after the start: a status record verified at the start (8
\* whole days, threshold 7) is reported stale, and the status record that
\* was refreshed after one day (exactly 7 whole days) is not
C24_Witness ==
    /\ call.op = "identify_stale_facts"
    /\ call.at = now
    /\ now = 8 * 24
    /\ \E a, b \in Range(semantic_memory) :
          /\ a.category = "status" /\ b.category = "status"
          /\ a.stale_threshold = 7 /\ b.stale_threshold = 7
          /\ a.last_verified = 0 /\ b.last_verified = 24
          /\ a \in Range(ret) /\ b \notin Range(ret)

\* the position of a record in the semantic tier
SemanticIndex(m) == CHOOSE i \in 1..Len(semantic_memory) : semantic_memory[i] = m

\* C25: identify_stale_facts returns exactly the semantic records that are
\* stale at the call, never a working or episodic record, by descending
\* importance, records of equal importance in their order of insertion.
C25_StaleByImportance ==
    (call.op = "identify_stale_facts" /\ call.at = now) =>
        /\ Range(ret) = {m \in Range(semantic_memory) : StaleNow(m)}
        /\ Len(ret) = Cardinality(Range(ret))
        /\ Range(ret) \cap (Range(working_memory) \cup Range(episodic_memory)) = {}
        /\ \A i, j \in 1..Len(ret) :
              i < j => \/ ret[i].importance > ret[j].importance
                       \/ /\ ret[i].importance = ret[j].importance
                          /\ SemanticIndex(ret[i]) < SemanticIndex(ret[j])

\* eight days after the start the six status records (0.7) are stale and so
\* are a task record (0.8) added to the semantic tier after them and an
\* episodic task record: the semantic task record comes first, the status
\* records follow in their order of insertion, the episodic one is not
\* returned
C25_Witness ==
    /\ call.op = "identify_stale_facts"
    /\ call.at = now
    /\ Len(ret) = 7
    /\ ret[1].category = "task"
    /\ ret[2].content = status_facts[1]
    /\ ret[7].content = status_facts[6]
    /\ \E m \in Range(episodic_memory) : StaleNow(m) /\ m \notin Range(ret)

\* C26: refresh_fact changes at most one record, the first of the semantic
\* tier in insertion order whose content starts with the match string (the
\* first record of all for an empty match string); every other semantic
\* record and every working and episodic record stays as it was, also when
\* several records share the prefix.
C26_AtMostOneRefreshed ==
    [][Mutates("refresh_fact") =>
          LET first == FirstMatch(semantic_memory, call'.args[1])
          IN  /\ Len(semantic_memory') = Len(semantic_memory)
              /\ \A i \in 1..Len(semantic_memory) :
                    IF i = first
                    THEN /\ semantic_memory'[i].id = semantic_memory[i].id
                         /\ semantic_memory'[i].last_verified = now
                    ELSE semantic_memory'[i] = semantic_memory[i]
              /\ UNCHANGED <<working_memory, episodic_memory>>]_vars

\* the records of the semantic tier whose content starts with "Launch"
LaunchRecords ==
    {i \in 1..Len(semantic_memory) : semantic_memory[i].content[1] \in {"Launch", "Shipped"}}

\* refresh_fact('Launch', 'Shipped') a day after the start, with four
\* records starting with Launch: the first was rewritten and verified, the
\* other three are as they were
C26_Witness ==
    /\ call.op = "refresh_fact"
    /\ call.args[1] = <<"Launch">>
    /\ call.at = 24
    /\ Cardinality(LaunchRecords) = 4
    /\ Cardinality({i \in LaunchRecords : semantic_memory[i].last_verified = 24}) = 1
    /\ Cardinality({i \in LaunchRecords : semantic_memory[i].content = <<"Shipped">>}) = 1
    /\ semantic_memory[FirstMatch(semantic_memory, <<"Shipped">>)].last_verified = 24
    /\ \A i \in LaunchRecords : i >= FirstMatch(semantic_memory, <<"Shipped">>)

MemoryReads == {"get_context_by_priority", "identify_stale_facts"}

\* C29: get_context_by_priority and identify_stale_facts leave the three
\* tiers, their order and every field of every record as they were, and a
\* second call at the same clock value returns what the first returned.
C29_PureReads ==
    [][call'.op \in MemoryReads =>
          /\ UNCHANGED <<working_memory, episodic_memory, semantic_memory, created>>
          /\ (call.op = call'.op /\ call.at = now /\ now' = now) => ret' = ret]_vars

\* identify_stale_facts eight days after the start, on tiers that two calls
\* had changed: stale records are returned and the semantic tier is still
\* in its order of insertion
C29_Witness ==
    /\ call.op = "identify_stale_facts"
    /\ call.at = now
    /\ ncalls = 2
    /\ Len(ret) >= 6
    /\ Len(semantic_memory) = InitialRecords + 1
    /\ \A i \in 1..Len(semantic_memory) : semantic_memory[i].id = i \/ i > InitialRecords
    /\ semantic_memory[1].importance = 10
    /\ semantic_memory[InitialRecords].importance = 7

(***************************************************************************)
(* The partition of the records into tiers                                 *)
(***************************************************************************)
\* the records of the three tiers, one list after the other
Held == working_memory \o episodic_memory \o semantic_memory

\* the identities of the records held
HeldIds == {Held[i].id : i \in 1..Len(Held)}

AddOps == {"add_to_working_memory", "add_to_episodic_memory", "add_to_semantic_memory"}

C28_Partition ==
    /\ Cardinality(HeldIds) = Len(Held)
    /\ \A i \in 1..Len(working_memory) : working_memory[i].memory_type = "working"
    /\ \A i \in 1..Len(episodic_memory) : episodic_memory[i].memory_type = "episodic"
    /\ \A i \in 1..Len(semantic_memory) : semantic_memory[i].memory_type = "semantic"

C28_Step ==
    IF \E op \in AddOps : Mutates(op)
    THEN /\ HeldIds \subseteq HeldIds'
         /\ Cardinality(HeldIds' \ HeldIds) = 1
         /\ Len(Held') = Len(Held) + 1
    ELSE /\ HeldIds' = HeldIds
         /\ Len(Held') = Len(Held)

\* C28: after any sequence of add_to_working_memory, add_to_episodic_memory,
\* add_to_semantic_memory and refresh_fact calls every record created by the
\* manager is in exactly one of the three lists, its memory_type names the
\* list that holds it, and no record is dropped or duplicated: each add call
\* adds exactly one record to the total and nothing else changes it.
C28_TierPartition == []C28_Partition /\ [][C28_Step]_vars

\* eleven working adds have moved the first note to the episodic tier, then
\* a semantic add and a refresh_fact followed: 10 + 1 + 28 records
C28_Witness ==
    /\ call.op = "refresh_fact"
    /\ Len(working_memory) = max_working_memory
    /\ Len(episodic_memory) = 1
    /\ episodic_memory[1].memory_type = "episodic"
    /\ episodic_memory[1].id = InitialRecords + 1
    /\ Len(semantic_memory) = InitialRecords + 1
    /\ Len(Held) = InitialRecords + 12
    /\ \E i \in 1..Len(semantic_memory) : semantic_memory[i].confidence = 5

(***************************************************************************)
(* The shared memory file                                                  *)
(***************************************************************************)
\* the keys of the deadline facts of ManualAcademic that a file holds
ManualKeys(file) ==
    IF file = <<>> \/ Len(file[1]) # 1 THEN {}
    ELSE {file[1][1].facts[i][1] : i \in {j \in 1..Len(file[1][1].facts) :
                                             file[1][1].facts[j][1][1] = "manual"}}

\* C30: a deadline fact that ManualAcademic.add_deadline has written to the
\* shared memory file stays in the file through every later save, that of a
\* DynamicMemory object which loaded the file before the add included, until
\* remove_deadline removes it.
C30_ManualFactKept ==
    [][\A k \in ManualKeys(memory_file) :
          k \in ManualKeys(memory_file') \/ Mutates("ManualAcademic.remove_deadline")]_vars

====
